---- MODULE Spec2Model ----
(***************************************************************************)
(* A model of waljs: the segment writer/reader, the meta index manager and *)
(* the WAL coordinator, with the files of the WAL directory at byte level. *)
(***************************************************************************)
EXTENDS Integers, Sequences, FiniteSets, TLC

\* ------------------------------------------------------------ bounds
\* write calls issued in one behaviour
MaxWrites == 3
\* coordinators constructed on the directory after the first one
MaxRestarts == 1
\* restarts in the behaviours in which the process can die
CrashRestarts == 2
\* write calls in the behaviours that compact the log more than once
CompactWrites == 5
\* write calls in the behaviours that write again after a recover
RecoverWrites == 4
\* write calls in the behaviours in which every kind of call contends for the lock
LockWrites == 2
\* capacity of the BufferedWriter buffer: the SegmentWriter default (4 * 1024)
\* scaled down so that the bounded payloads can fill it
bufferSize == 16

\* ------------------------------------------------------------ constants
INT_SIZE == 4
HEADER_SIZE == 20
INDEX_SIZE == 8
FRAME_HEADER_SIZE == 9

Null == "null"

\* ------------------------------------------------------------ bytes
Max(a, b) == IF a >= b THEN a ELSE b
Min(a, b) == IF a <= b THEN a ELSE b

Zeros(n) == [i \in 1..n |-> 0]

\* Buffer.writeUInt32BE / readUInt32BE
U32BE(n) == << (n \div 16777216) % 256, (n \div 65536) % 256, (n \div 256) % 256, n % 256 >>
ReadU32BE(b) == b[1] * 16777216 + b[2] * 65536 + b[3] * 256 + b[4]

\* crc32.buf(payload) >>> 0: an unsigned digest of the payload bytes, which
\* depends on every byte and on the length (kept within 16 bits)
RECURSIVE crcFold(_, _)
crcFold(h, b) == IF b = << >> THEN h ELSE crcFold((h * 31 + Head(b) + 1) % 65521, Tail(b))
crc32buf(payload) == crcFold(7, payload)

\* ------------------------------------------------------------ files
\* fs read: the bytes of f in [pos, pos + n), cut at the end of the file
ReadAt(f, pos, n) == SubSeq(f, pos + 1, Min(Len(f), pos + n))
\* a read into a zero-filled Buffer.alloc(n)
ReadPadded(f, pos, n) == LET got == ReadAt(f, pos, n) IN got \o Zeros(n - Len(got))
\* fs write of data at byte position pos (a hole is zero filled)
WriteAt(f, pos, data) ==
  LET n == Max(Len(f), pos + Len(data)) IN
  [i \in 1..n |-> IF i > pos /\ i <= pos + Len(data) THEN data[i - pos]
                  ELSE IF i <= Len(f) THEN f[i] ELSE 0]
\* ftruncate
TruncateTo(f, n) == IF n <= Len(f) THEN SubSeq(f, 1, n) ELSE f \o Zeros(n - Len(f))

\* ------------------------------------------------------------ TextEntry
\* TextEntry.encode: 4-byte length, then the content
TextEncode(content) == U32BE(Len(content)) \o content

\* ------------------------------------------------------------ frames
\* the bytes SegmentWriter.write hands to the buffered writer
FrameBytes(index, typ, checksum, payload) ==
  U32BE(index) \o << typ >> \o U32BE(checksum) \o payload

\* EntryRegistry.get: only TextEntry (type 0) is registered
RegistryHas(typ) == typ = 0

\* SegmentReader.readOffset on a file f: the entry at byte offset
\*   kind "undefined"    nothing to read at the offset: the call returns undefined
\*   kind "error"        the call throws err
\*   kind "entry"        the decoded entry: the frame's index, the entry's content
ReadUndefined == [kind |-> "undefined", err |-> Null, index |-> 0, content |-> << >>]
ReadError(err) == [kind |-> "error", err |-> err, index |-> 0, content |-> << >>]
ReadEntry(index, content) == [kind |-> "entry", err |-> Null, index |-> index, content |-> content]

readOffset(f, offset) ==
  LET hdr == ReadAt(f, offset, FRAME_HEADER_SIZE) IN
  IF Len(hdr) = 0 THEN ReadUndefined
  ELSE IF Len(hdr) < FRAME_HEADER_SIZE THEN ReadError("UnexpectedEOF")
  ELSE
    LET index == ReadU32BE(SubSeq(hdr, 1, 4))
        typ == hdr[5]
        checksum == ReadU32BE(SubSeq(hdr, 6, 9))
    IN
    IF ~RegistryHas(typ) THEN ReadError("InvalidEntryType")
    ELSE
      LET lenBuf == ReadPadded(f, offset + FRAME_HEADER_SIZE, INT_SIZE)
          length == ReadU32BE(lenBuf)
      IN
      \* a content longer than the rest of the file is read zero padded
      IF length > Len(f) THEN ReadError("CorruptEntry")
      ELSE
        LET content == ReadPadded(f, offset + FRAME_HEADER_SIZE + INT_SIZE, length)
            payload == lenBuf \o content
        IN
        IF checksum # crc32buf(payload) THEN ReadError("CorruptEntry")
        ELSE ReadEntry(index, content)

\* ------------------------------------------------------------ index.META
\* The meta file: the header fields after the marker, then the 8-byte index
\* slots. A slot is << segmentID, byteOffset >>.
MetaFileOf(base, head, commit, segment, slots) ==
  [exists |-> TRUE, base |-> base, head |-> head, commit |-> commit,
   segment |-> segment, slots |-> slots]
\* no such file
NoMetaFile ==
  [exists |-> FALSE, base |-> 0, head |-> 0, commit |-> 0, segment |-> 0, slots |-> << >>]

ZeroSlot == << 0, 0 >>
\* the slot a byte offset of the meta file falls into
SlotOfOffset(fileOffset) == (fileOffset - HEADER_SIZE) \div INDEX_SIZE

\* metaFile.write(buffer, 0, buffer.length, fileOffset) for a run of slots
MetaWriteSlots(mf, fileOffset, entries) ==
  LET s0 == SlotOfOffset(fileOffset)
      n == Max(Len(mf.slots), s0 + Len(entries))
  IN [mf EXCEPT !.slots =
        [i \in 1..n |-> IF i > s0 /\ i <= s0 + Len(entries) THEN entries[i - s0]
                        ELSE IF i <= Len(mf.slots) THEN mf.slots[i] ELSE ZeroSlot]]
\* metaFile.read of one slot into a zeroed buffer
MetaReadSlot(mf, fileOffset) ==
  LET s == SlotOfOffset(fileOffset) IN
  IF s + 1 <= Len(mf.slots) THEN mf.slots[s + 1] ELSE ZeroSlot

\* ------------------------------------------------------------ MetaFileManager
\* A world w is the directory together with the objects of the process:
\*   w.segs   <N>.wal files     w.meta  index.META     w.tmp  index.META.tmp
\*   w.asegs, w.ameta           the archive directory
\*   w.mm     the MetaFileManager fields      w.wal  the WAL fields
\* An operation returns [w |-> the world after it, err |-> Null or the error
\* it throws, val |-> its result].
Ok(w, val) == [w |-> w, err |-> Null, val |-> val]
Throw(w, err) == [w |-> w, err |-> err, val |-> Null]

\* this.header of a manager whose file is not open (null)
NullHeader == [open |-> FALSE, base |-> 0, head |-> 0, commit |-> 0, segment |-> 0]
HeaderOf(base, head, commit, segment) ==
  [open |-> TRUE, base |-> base, head |-> head, commit |-> commit, segment |-> segment]

\* new MetaFileManager(path, opts)
mmNew(bufferingEnabled, maxBufferSize) ==
  [header |-> NullHeader,
   updatesQueue |-> << >>,
   updatesQueueFileOffset |-> 0,
   isBufferingEnabled |-> bufferingEnabled,
   maxBufferSize |-> maxBufferSize,
   syncTimer |-> bufferingEnabled]

localIndex(w, logOffset) == logOffset - w.mm.header.base

\* the first write of sync(): the 12 header bytes Head, Commit, Segment
mmWriteHeaderTail(w) ==
  [w EXCEPT !.meta = [@ EXCEPT !.head = w.mm.header.head,
                               !.commit = w.mm.header.commit,
                               !.segment = w.mm.header.segment]]

\* the second write of sync(): the queued entries, in one write
mmWriteQueue(w, entries, fileOffset) ==
  [w EXCEPT !.meta = MetaWriteSlots(@, fileOffset, entries)]

mmClearQueue(w) ==
  [w EXCEPT !.mm.updatesQueue = << >>, !.mm.updatesQueueFileOffset = 0]

\* MetaFileManager.sync, run without another task in between
mmSyncQueue(w1) ==
  IF ~w1.mm.isBufferingEnabled \/ w1.mm.updatesQueue = << >> THEN w1
  ELSE mmClearQueue(mmWriteQueue(w1, w1.mm.updatesQueue, w1.mm.updatesQueueFileOffset))

mmSync(w) == mmSyncQueue(mmWriteHeaderTail(w))

\* MetaFileManager.create
mmCreate(w) ==
  [w EXCEPT !.meta = MetaFileOf(0, 0, -1, 0, << >>),
            !.mm = [mmNew(TRUE, 1024) EXCEPT
                      !.header = HeaderOf(0, 0, -1, 0)]]

\* MetaFileManager.init: read the header of the file
mmInit(w) ==
  IF w.mm.header.open THEN w
  ELSE [w EXCEPT !.mm.header =
          HeaderOf(w.meta.base, w.meta.head, w.meta.commit, w.meta.segment)]

\* MetaFileManager.close
mmCloseSynced(w1) == [w1 EXCEPT !.mm.header = NullHeader]

mmClose(w) ==
  IF ~w.mm.header.open THEN w
  ELSE mmCloseSynced(mmSync([w EXCEPT !.mm.syncTimer = FALSE]))

\* a commit that takes any index above Commit
mmCommitAny(w, index) ==
  IF index < w.mm.header.commit + 1 THEN Ok(w, w.mm.header.commit)
  ELSE IF ~w.mm.isBufferingEnabled
       THEN Ok([w EXCEPT !.mm.header.commit = index, !.meta.commit = index], index)
       ELSE Ok([w EXCEPT !.mm.header.commit = index], index)

\* MetaFileManager.commit
mmCommit(w, index) ==
  IF index < w.mm.header.commit + 1 THEN Ok(w, w.mm.header.commit)
  ELSE IF index # w.mm.header.commit + 1 THEN Throw(w, "OutOfOrderCommit")
  ELSE IF ~w.mm.isBufferingEnabled
       THEN Ok([w EXCEPT !.mm.header.commit = index, !.meta.commit = index], index)
       ELSE Ok([w EXCEPT !.mm.header.commit = index], index)

\* MetaFileManager.position
mmPositionRead(w1, fileOffset) ==
  Ok(w1, [segmentID |-> MetaReadSlot(w1.meta, fileOffset)[1],
          offset |-> MetaReadSlot(w1.meta, fileOffset)[2]])

mmPosition(w, logIndex) ==
  IF logIndex < w.mm.header.base THEN Throw(w, "OutOfBounds")
  ELSE IF logIndex >= w.mm.header.head THEN Throw(w, "OutOfBounds")
  ELSE mmPositionRead(mmSync(w), HEADER_SIZE + localIndex(w, logIndex) * INDEX_SIZE)

\* a truncate that does not protect the committed entries
mmTruncateAny(w, fromLogIndex) ==
  IF fromLogIndex >= w.mm.header.head THEN Throw(w, "OutOfBounds")
  ELSE Ok([w EXCEPT !.mm.header.head = fromLogIndex, !.meta.head = fromLogIndex], Null)

\* MetaFileManager.truncate
mmTruncate(w, fromLogIndex) ==
  IF fromLogIndex <= w.mm.header.commit THEN Throw(w, "TruncateCommitted")
  ELSE IF fromLogIndex >= w.mm.header.head THEN Throw(w, "OutOfBounds")
  ELSE Ok([w EXCEPT !.mm.header.head = fromLogIndex, !.meta.head = fromLogIndex], Null)

\* MetaFileManager.write
mmWriteQueued(w1, currentHead) ==
  IF Len(w1.mm.updatesQueue) >= w1.mm.maxBufferSize
  THEN Ok(mmSync(w1), currentHead)
  ELSE Ok(w1, currentHead)

mmWrite(w, segmentID, offset) ==
  LET h == w.mm.header
      indexFileOffset == HEADER_SIZE + localIndex(w, h.head) * INDEX_SIZE
      newSegment == IF segmentID > h.segment THEN segmentID ELSE h.segment
      newHeader == [h EXCEPT !.head = h.head + 1, !.segment = newSegment]
  IN
  IF segmentID < h.segment THEN Throw(w, "OutOfOrderSegment")
  ELSE IF w.mm.isBufferingEnabled
  THEN mmWriteQueued([w EXCEPT
                        !.mm.updatesQueueFileOffset =
                           IF w.mm.updatesQueue = << >> THEN indexFileOffset ELSE @,
                        !.mm.updatesQueue = Append(@, << segmentID, offset >>),
                        !.mm.header = newHeader],
                     h.head)
  ELSE Ok([w EXCEPT
             !.meta = [MetaWriteSlots(@, indexFileOffset, << << segmentID, offset >> >>)
                         EXCEPT !.head = newHeader.head, !.segment = newHeader.segment],
             !.mm.header = newHeader], h.head)

\* the slots of the old file from localIndex(Commit + 1) to its end, which the
\* copy loop of compact/archive moves to the new file
mmUncommittedSlots(w) ==
  IF localIndex(w, w.mm.header.commit + 1) < 0 THEN w.meta.slots
  ELSE SubSeq(w.meta.slots, localIndex(w, w.mm.header.commit + 1) + 1, Len(w.meta.slots))

\* the file compact/archive build: Base = Commit + 1, the rest of the header
\* as it is, the uncommitted slots
mmCompactedFile(w1) ==
  MetaFileOf(w1.mm.header.commit + 1, w1.mm.header.head, w1.mm.header.commit,
             w1.mm.header.segment, mmUncommittedSlots(w1))

\* MetaFileManager.compact: index.META.tmp written, the old file unlinked,
\* tmp renamed, the header re-read
mmCompactSynced(w1) ==
  mmInit([w1 EXCEPT !.meta = mmCompactedFile(w1), !.tmp = NoMetaFile,
                    !.mm.header = NullHeader])

mmCompact(w) == mmCompactSynced(mmSync(w))

\* MetaFileManager.archive: as compact, the old file truncated to its
\* committed slots and moved to the archive directory
mmArchivedFile(w1, keep) ==
  [w1.meta EXCEPT !.slots = SubSeq(@, 1, Min(keep, Len(@))) \o
                             [i \in 1..(keep - Min(keep, Len(@))) |-> ZeroSlot]]

mmArchiveSynced(w1) ==
  mmInit([w1 EXCEPT
            !.ameta = mmArchivedFile(w1, Max(0, localIndex(w1, w1.mm.header.commit + 1))),
            !.meta = mmCompactedFile(w1), !.tmp = NoMetaFile,
            !.mm.header = NullHeader])

mmArchive(w) == mmArchiveSynced(mmSync(w))

\* The awaits of MetaFileManager.compact and MetaFileManager.archive, one
\* operator per file operation, for the behaviours in which the process dies
\* between two of them.
\* index.META.tmp opened with "w+" and its header written
mmTmpCreated(w1) ==
  [w1 EXCEPT !.tmp = MetaFileOf(w1.mm.header.commit + 1, w1.mm.header.head,
                                w1.mm.header.commit, w1.mm.header.segment, << >>)]
\* the copy loop: the uncommitted slots written to index.META.tmp
mmTmpCopied(w) == [w EXCEPT !.tmp.slots = mmUncommittedSlots(w)]
\* compact: unlink(index.META)
mmOldUnlinked(w) == [w EXCEPT !.meta = NoMetaFile]
\* archive: the old file truncated to its committed slots
mmOldTruncated(w) ==
  [w EXCEPT !.meta = mmArchivedFile(w, Max(0, localIndex(w, w.mm.header.commit + 1)))]
\* archive: the old file moved to the archive directory
mmOldMoved(w) == [w EXCEPT !.ameta = w.meta, !.meta = NoMetaFile]
\* rename(index.META.tmp, index.META), then init re-reads the header
mmTmpRenamed(w) ==
  mmInit([w EXCEPT !.meta = w.tmp, !.tmp = NoMetaFile, !.mm.header = NullHeader])

\* ------------------------------------------------------------ file handles
\* A FileHandle on <seg>.wal: flag "a+" appends every write at the end of the
\* file, flag "r+" writes at the handle's position, which starts at 0;
\* "closed" after close(). dirty: bytes were written through the handle and
\* no FileHandle.sync()/datasync() followed.
HandleOf(seg, flag) == [seg |-> seg, flag |-> flag, pos |-> 0, dirty |-> FALSE]
NoHandle == HandleOf(-1, "closed")

SegExists(w, seg) == seg \in DOMAIN w.segs
\* the directory with <seg>.wal created empty unless it exists
SegCreate(segs, seg) == IF seg \in DOMAIN segs THEN segs ELSE segs @@ (seg :> << >>)
\* the directory without the files of ids
SegUnlink(segs, ids) == [i \in (DOMAIN segs) \ ids |-> segs[i]]

\* a handle that writes at the start of the file whatever its flag
fhWriteAtStart(w, data) ==
  [w EXCEPT !.segs[w.wal.currSegmentWriter.fh.seg] = WriteAt(@, 0, data)]

\* FileHandle.write(data) through the current segment writer's handle
fhWrite(w, data) ==
  LET fh == w.wal.currSegmentWriter.fh
      f == w.segs[fh.seg]
  IN
  IF fh.flag = "a+"
  THEN [w EXCEPT !.segs[fh.seg] = f \o data,
                 !.wal.currSegmentWriter.fh.dirty = TRUE]
  ELSE [w EXCEPT !.segs[fh.seg] = WriteAt(f, fh.pos, data),
                 !.wal.currSegmentWriter.fh.pos = fh.pos + Len(data),
                 !.wal.currSegmentWriter.fh.dirty = TRUE]

\* ------------------------------------------------------------ BufferedWriter
bwAvailable(w) == bufferSize - Len(w.wal.currSegmentWriter.buf)

\* BufferedWriter.flush
bwFlush(w) ==
  IF Len(w.wal.currSegmentWriter.buf) = 0 THEN Ok(w, Null)
  ELSE IF w.wal.currSegmentWriter.fh.flag = "closed" THEN Throw(w, "EBADF")
  ELSE Ok([fhWrite(w, w.wal.currSegmentWriter.buf) EXCEPT !.wal.currSegmentWriter.buf = << >>],
          Null)

\* BufferedWriter.write: the loop, then the copy of the remainder. A write
\* larger than the buffer that finds the buffer empty is handed to the file
\* and leaves `remaining` as it was, so the loop does not end: "hang".
RECURSIVE bwWriteLoop(_, _, _)
bwWriteFlushed(fl, data, remaining, n) ==
  IF fl.err # Null THEN fl
  ELSE bwWriteLoop(fl.w, SubSeq(data, n + 1, Len(data)), remaining - n)

bwWriteLoop(w, data, remaining) ==
  IF remaining > bwAvailable(w)
  THEN IF Len(w.wal.currSegmentWriter.buf) = 0
       THEN IF w.wal.currSegmentWriter.fh.flag = "closed" THEN Throw(w, "EBADF")
            ELSE Throw(fhWrite(w, data), "hang")
       ELSE bwWriteFlushed(
              bwFlush([w EXCEPT !.wal.currSegmentWriter.buf =
                                   @ \o SubSeq(data, 1, bwAvailable(w))]),
              data, remaining, bwAvailable(w))
  ELSE IF remaining > 0
       THEN Ok([w EXCEPT !.wal.currSegmentWriter.buf = @ \o SubSeq(data, 1, remaining)], Null)
       ELSE Ok(w, Null)

bwWrite(w, data) == bwWriteLoop(w, data, Len(data))

\* BufferedWriter.close
bwCloseFlushed(fl) ==
  IF fl.err # Null THEN fl
  ELSE Ok([fl.w EXCEPT !.wal.currSegmentWriter.fh.flag = "closed"], Null)

bwClose(w) == bwCloseFlushed(bwFlush(w))

\* ------------------------------------------------------------ SegmentWriter
NoWriter == [exists |-> FALSE, size |-> 0, buf |-> << >>, fh |-> NoHandle]
\* new SegmentWriter(file)
NewWriter(fh) == [exists |-> TRUE, size |-> 0, buf |-> << >>, fh |-> fh]

\* SegmentWriter.write: returns the size before the write
swWritten(wr, oldSize, n) ==
  IF wr.err # Null THEN wr
  ELSE Ok([wr.w EXCEPT !.wal.currSegmentWriter.size = @ + n], oldSize)

swWrite(w, index, typ, checksum, payload) ==
  swWritten(bwWrite(w, FrameBytes(index, typ, checksum, payload)),
            w.wal.currSegmentWriter.size, FRAME_HEADER_SIZE + Len(payload))

\* ------------------------------------------------------------ WAL
\* new WAL(walFilePath, opts). lockQ is the queue of the writeLock mutex: its
\* head holds the lock. currSegmentFile is "undefined", "writer" when it is
\* the handle the current segment writer writes through, or "closed" when it
\* is the handle of a writer that was closed.
NewWAL(o) ==
  [currSegmentID |-> -1,
   currSegmentWriter |-> NoWriter,
   currSegmentFile |-> "undefined",
   hasMetaManager |-> FALSE,
   isInitialized |-> FALSE,
   isClosed |-> FALSE,
   syncWaiters |-> << >>,
   isSyncOngoing |-> FALSE,
   lockQ |-> << >>,
   maxSegmentSize |-> o.maxSegmentSize,
   minEntriesForCompaction |-> o.minEntriesForCompaction,
   metaManagerOpts |-> o.meta]

SetMax(S) == CHOOSE x \in S : \A y \in S : y <= x

\* WAL.loadOrCreateMetaFileManager
loadOrCreateMetaFileManager(w) ==
  IF ~w.meta.exists THEN mmCreate(w)
  ELSE mmInit([w EXCEPT !.mm = mmNew(w.wal.metaManagerOpts.bufferingEnabled,
                                     w.wal.metaManagerOpts.maxBufferSize)])

\* WAL.openSegmentFile
openSegmentFile(seg) == NewWriter(HandleOf(seg, "r+"))

\* WAL.init
walInitLoaded(w1) ==
  IF DOMAIN w1.segs = {} THEN [w1 EXCEPT !.wal.isInitialized = TRUE]
  ELSE [w1 EXCEPT !.wal.currSegmentWriter = openSegmentFile(SetMax(DOMAIN w1.segs)),
                  !.wal.currSegmentID = SetMax(DOMAIN w1.segs),
                  !.wal.isInitialized = TRUE]

walInit(w) ==
  IF w.wal.isInitialized THEN w
  ELSE walInitLoaded([loadOrCreateMetaFileManager(w) EXCEPT !.wal.hasMetaManager = TRUE])

\* WAL.rollSegmentIfNeeded
rollOpened(cl, id) ==
  IF cl.err # Null THEN cl
  ELSE Ok([cl.w EXCEPT !.segs = SegCreate(@, id),
                       !.wal.currSegmentFile = "writer",
                       !.wal.currSegmentWriter = NewWriter(HandleOf(id, "a+"))],
          Null)

rollSegment(w1) ==
  rollOpened(IF w1.wal.currSegmentWriter.exists THEN bwClose(w1) ELSE Ok(w1, Null),
             w1.wal.currSegmentID)

rollSegmentIfNeeded(w) ==
  IF w.wal.currSegmentWriter.exists /\ w.wal.currSegmentWriter.size < w.wal.maxSegmentSize
  THEN Ok(w, Null)
  ELSE rollSegment([w EXCEPT !.wal.currSegmentID = @ + 1])

\* WAL.scheduleSync (syncDelay is 0): the sync task queues for the lock
scheduleSync(w) ==
  IF w.wal.isSyncOngoing THEN w
  ELSE [w EXCEPT !.wal.isSyncOngoing = TRUE,
                 !.wal.lockQ = Append(@, [k |-> "sync", id |-> 0])]

\* a doWrite that returns the head read after the meta write
doWriteIndexedAfter(m, newIndex) ==
  IF m.err # Null THEN m ELSE Ok(scheduleSync(m.w), newIndex + 1)

\* WAL.doWrite for a TextEntry of the given content
doWriteIndexed(m, newIndex) ==
  IF m.err # Null THEN m ELSE Ok(scheduleSync(m.w), newIndex)

doWriteFramed(s, newIndex) ==
  IF s.err # Null THEN s
  ELSE doWriteIndexed(mmWrite(s.w, s.w.wal.currSegmentID, s.val), newIndex)

doWriteRolled(r, payload) ==
  IF r.err # Null THEN r
  ELSE IF ~r.w.mm.header.open THEN Throw(r.w, "TypeError")
  ELSE doWriteFramed(swWrite(r.w, r.w.mm.header.head, 0, crc32buf(payload), payload),
                     r.w.mm.header.head)

\* a doWrite without the test of isClosed
doWriteUnchecked(w, content) == doWriteRolled(rollSegmentIfNeeded(w), TextEncode(content))

doWrite(w, content) ==
  IF w.wal.isClosed THEN Throw(w, "Closed")
  ELSE doWriteRolled(rollSegmentIfNeeded(w), TextEncode(content))

\* the flush of WAL.sync: await this.currSegmentWriter.sync()
walSyncFlush(w) ==
  IF ~w.wal.currSegmentWriter.exists THEN Throw(w, "TypeError")
  ELSE bwFlush(w)

\* the rest of WAL.sync: every waiter of the list is resolved, the list emptied
walSyncResolve(w) == [w EXCEPT !.wal.syncWaiters = << >>]

\* WAL.getEntry
getEntryRead(w1, e) ==
  IF e.kind = "error" THEN Throw(w1, e.err) ELSE Ok(w1, e)

getEntryAt(p) ==
  IF p.err # Null THEN p
  ELSE IF ~SegExists(p.w, p.val.segmentID) THEN Throw(p.w, "ENOENT")
  ELSE getEntryRead(p.w, readOffset(p.w.segs[p.val.segmentID], p.val.offset))

getEntry(w, index) ==
  IF ~w.mm.header.open THEN Throw(w, "TypeError")
  ELSE getEntryAt(mmPosition(w, index))

\* the loop of readWALContent over one segment file: readNext and decode
\* until nothing is left to read
RECURSIVE framesFrom(_, _)
framesNext(f, offset, e) ==
  IF e.kind # "entry" THEN << >>
  ELSE << [index |-> e.index, content |-> e.content] >>
         \o framesFrom(f, offset + FRAME_HEADER_SIZE + INT_SIZE + Len(e.content))

framesFrom(f, offset) == framesNext(f, offset, readOffset(f, offset))

SetMin(S) == CHOOSE x \in S : \A y \in S : x <= y

\* readWALContent: the frames of the segment files in segment-ID order
RECURSIVE readWALContent(_)
readWALContent(files) ==
  IF DOMAIN files = {} THEN << >>
  ELSE framesFrom(files[SetMin(DOMAIN files)], 0)
         \o readWALContent(SegUnlink(files, { SetMin(DOMAIN files) }))

\* WAL.truncate
truncateReopen(w2, pos) ==
  IF ~SegExists(w2, pos.segmentID) THEN Throw(w2, "ENOENT")
  ELSE Ok([w2 EXCEPT
             !.segs[pos.segmentID] = TruncateTo(@, pos.offset),
             !.wal.currSegmentFile = "writer",
             !.wal.currSegmentWriter = NewWriter(HandleOf(pos.segmentID, "r+"))], Null)

truncateUnlink(cl, pos, ids) ==
  IF cl.err # Null THEN cl
  ELSE IF ~(ids \subseteq DOMAIN cl.w.segs)
       THEN Throw([cl.w EXCEPT !.segs = SegUnlink(@, ids)], "ENOENT")
  ELSE truncateReopen([cl.w EXCEPT !.segs = SegUnlink(@, ids),
                                   !.wal.currSegmentID = pos.segmentID], pos)

truncateSegments(t, pos) ==
  IF t.err # Null THEN t
  ELSE IF pos.segmentID = t.w.wal.currSegmentID
  THEN IF t.w.wal.currSegmentFile = "undefined" THEN Throw(t.w, "TypeError")
       ELSE IF t.w.wal.currSegmentFile = "closed" THEN Throw(t.w, "EBADF")
       ELSE Ok([t.w EXCEPT !.segs[pos.segmentID] = TruncateTo(@, pos.offset)], Null)
  ELSE IF ~t.w.wal.currSegmentWriter.exists THEN Throw(t.w, "TypeError")
  ELSE truncateUnlink(bwClose(t.w), pos, (pos.segmentID + 1) .. t.w.wal.currSegmentID)

truncateAt(p, fromLogIndex) ==
  IF p.err # Null THEN p
  ELSE truncateSegments(mmTruncate(p.w, fromLogIndex), p.val)

truncate(w, fromLogIndex) == truncateAt(mmPosition(w, fromLogIndex), fromLogIndex)

\* WAL.recover with the handler (index) => index < k; k = 0 is the default
\* handler, which accepts nothing
RECURSIVE recoverLoop(_, _, _)
recoverCommitted(c, i, k) ==
  IF c.err # Null THEN c ELSE recoverLoop(c.w, i + 1, k)

\* a recover that cuts the log at an entry it cannot read
recoverEntryCutting(g, i, k) ==
  IF g.err # Null THEN truncate(g.w, i)
  ELSE IF i < k THEN recoverCommitted(mmCommit(g.w, i), i, k)
  ELSE truncate(g.w, i)

recoverEntry(g, i, k) ==
  IF g.err # Null THEN g
  ELSE IF i < k THEN recoverCommitted(mmCommit(g.w, i), i, k)
  ELSE truncate(g.w, i)

recoverLoop(w, i, k) ==
  IF i > w.mm.header.head - 1 THEN Ok(w, Null)
  ELSE recoverEntry(getEntry(w, i), i, k)

recover(w, k) ==
  IF w.wal.isClosed THEN Throw(w, "Closed")
  ELSE IF ~w.mm.header.open THEN Throw(w, "TypeError")
  ELSE IF w.mm.header.commit = -1 \/ w.mm.header.commit = w.mm.header.head - 1
       THEN Ok(w, Null)
  ELSE recoverLoop(w, w.mm.header.commit + 1, k)

\* WAL.commitUpTo
RECURSIVE commitLoop(_, _, _)
commitNext(c, i, index) ==
  IF c.err # Null THEN c ELSE commitLoop(c.w, i + 1, index)

commitLoop(w, i, index) ==
  IF i > index THEN Ok(w, Null)
  ELSE commitNext(mmCommit(w, i), i, index)

commitUpTo(w, index) ==
  IF index <= w.mm.header.commit THEN Throw(w, "AlreadyCommitted")
  ELSE commitLoop(w, w.mm.header.commit + 1, index)

\* the test without its comparison of Commit with the last index
noCompactionNeededBelowHead(w) ==
  \/ w.mm.header.commit = -1
  \/ w.mm.header.commit - w.mm.header.base < w.wal.minEntriesForCompaction

\* the test that opens WAL.compact and WAL.archive: "No compaction needed"
noCompactionNeeded(w) ==
  \/ w.mm.header.commit = -1
  \/ w.mm.header.commit = w.mm.header.head - 1
  \/ w.mm.header.commit - w.mm.header.base < w.wal.minEntriesForCompaction

\* WAL.compact after its sync: val is the boolean it returns
compactUnlink(w3, ids) ==
  IF ~(ids \subseteq DOMAIN w3.segs)
  THEN Throw([w3 EXCEPT !.segs = SegUnlink(@, ids)], "ENOENT")
  ELSE Ok([w3 EXCEPT !.segs = SegUnlink(@, ids)], TRUE)

compactFrom(p2, segmentID) ==
  IF p2.err # Null THEN p2
  ELSE IF segmentID = p2.val.segmentID THEN Ok(p2.w, FALSE)
  ELSE compactUnlink(mmCompact(p2.w), p2.val.segmentID .. (segmentID - 1))

compactTo(p1) ==
  IF p1.err # Null THEN p1
  ELSE IF p1.val.segmentID = 0 THEN Ok(p1.w, FALSE)
  ELSE compactFrom(mmPosition(p1.w, p1.w.mm.header.base), p1.val.segmentID)

compactAfterSync(w) == compactTo(mmPosition(w, w.mm.header.commit))

\* WAL.archive after its sync
archiveMove(w3, ids) ==
  IF ~(ids \subseteq DOMAIN w3.segs)
  THEN Throw([w3 EXCEPT
                !.segs = SegUnlink(@, ids),
                !.asegs = [i \in (DOMAIN @) \cup (ids \cap DOMAIN w3.segs) |->
                             IF i \in ids \cap DOMAIN w3.segs THEN w3.segs[i] ELSE @[i]]],
             "ENOENT")
  ELSE Ok([w3 EXCEPT
             !.segs = SegUnlink(@, ids),
             !.asegs = [i \in (DOMAIN @) \cup ids |->
                          IF i \in ids THEN w3.segs[i] ELSE @[i]]], TRUE)

archiveFrom(p2, segmentID) ==
  IF p2.err # Null THEN p2
  ELSE IF segmentID = p2.val.segmentID THEN Ok(p2.w, FALSE)
  ELSE archiveMove(mmArchive(p2.w), p2.val.segmentID .. (segmentID - 1))

archiveTo(p1) ==
  IF p1.err # Null THEN p1
  ELSE IF p1.val.segmentID = 0 THEN Ok(p1.w, FALSE)
  ELSE archiveFrom(mmPosition(p1.w, p1.w.mm.header.base), p1.val.segmentID)

archiveAfterSync(w) == archiveTo(mmPosition(w, w.mm.header.commit))

\* WAL.close after its sync: the writer is closed and dropped, then the
\* meta manager is closed
closeWriterClosed(cl) ==
  IF cl.err # Null THEN cl
  ELSE Ok([mmClose([cl.w EXCEPT
                      !.wal.currSegmentWriter = NoWriter,
                      !.wal.currSegmentFile =
                         IF @ = "writer" THEN "closed" ELSE @])
             EXCEPT !.wal.isInitialized = FALSE], Null)

closeAfterSync(w) == closeWriterClosed(bwClose(w))

\* WAL.close of a coordinator that has no segment writer
closeNoWriter(w) == [mmClose(w) EXCEPT !.wal.isInitialized = FALSE]

\* ------------------------------------------------------------ state
VARIABLES
  segs, meta, tmp,    \* the WAL directory: <N>.wal, index.META, index.META.tmp
  asegs, ameta,       \* the archive directory
  mm,                 \* the MetaFileManager of the coordinator
  wal,                \* the WAL coordinator
  opts,               \* the options every coordinator is constructed with
  calls,              \* the write calls issued so far, in call order
  crit,               \* the task that holds the write lock across its sync
  tsync,              \* the sync() started by the auto-sync timer
  restarts,           \* coordinators constructed after the first
  budget,             \* the write calls and restarts the client will make
  last                \* the last maintenance operation and the state before it

vars ==
  << segs, meta, tmp, asegs, ameta, mm, wal, opts, calls, crit, tsync, restarts, budget, last >>

World ==
  [segs |-> segs, meta |-> meta, tmp |-> tmp, asegs |-> asegs, ameta |-> ameta,
   mm |-> mm, wal |-> wal]

Becomes(w) ==
  /\ segs' = w.segs /\ meta' = w.meta /\ tmp' = w.tmp
  /\ asegs' = w.asegs /\ ameta' = w.ameta
  /\ mm' = w.mm /\ wal' = w.wal

\* the payloads of the TextEntry records written
Contents == { << 97 >>, << 98, 98 >> }
\* maxSegmentSize: one frame per segment, or up to three
SegmentSizes == { 10, 40 }
\* the WALOptions a coordinator is given
Options ==
  [maxSegmentSize : SegmentSizes,
   minEntriesForCompaction : { 1 },
   meta : [bufferingEnabled : BOOLEAN, maxBufferSize : { 2 }]]

NoFiles == [i \in {} |-> << >>]

\* what an observer of the coordinator sees: the header fields, the current
\* segment, the segment files, and getEntry(i) for every i in [Base, Head)
Outcome(g) == IF g.err # Null THEN ReadError(g.err) ELSE g.val
Observed(w) ==
  [header |-> w.mm.header,
   currSegmentID |-> w.wal.currSegmentID,
   segs |-> w.segs,
   asegs |-> w.asegs,
   got |-> [i \in w.mm.header.base .. (w.mm.header.head - 1) |->
              Outcome(getEntry(w, i))]]
NoObserved ==
  [header |-> NullHeader, currSegmentID |-> -1, segs |-> NoFiles, asegs |-> NoFiles,
   got |-> [i \in {} |-> ReadUndefined]]

LastNone ==
  [op |-> "none", done |-> FALSE, err |-> Null, val |-> FALSE, k |-> 0, pre |-> NoObserved]
LastOf(op, k, w) ==
  [op |-> op, done |-> FALSE, err |-> Null, val |-> FALSE, k |-> k, pre |-> Observed(w)]
\* the operation returned val or threw err
Finished(l, err, val) == [l EXCEPT !.done = TRUE, !.err = err, !.val = val]

NoCrit == [pc |-> "none", covers |-> {}]
IdleTimer == "idle"
\* this.metaManager before init constructs one
NoManager == mmNew(FALSE, 0)

\* an empty directory and a coordinator constructed with options o
InitWith(o, b) ==
  /\ segs = NoFiles /\ meta = NoMetaFile /\ tmp = NoMetaFile
  /\ asegs = NoFiles /\ ameta = NoMetaFile
  /\ opts = o
  /\ budget = b
  /\ mm = NoManager
  /\ wal = NewWAL(opts)
  /\ calls = << >>
  /\ crit = NoCrit
  /\ tsync = IdleTimer
  /\ restarts = 0
  /\ last = LastNone

Init == \E o \in Options : InitWith(o, [writes |-> MaxWrites, restarts |-> MaxRestarts])

\* no call of the client is pending and no task holds or awaits the lock
Quiescent ==
  /\ wal.lockQ = << >>
  /\ \A c \in DOMAIN calls : calls[c].pc \in { "returned", "failed", "lost" }

HeadIs(kind) == wal.lockQ # << >> /\ Head(wal.lockQ).k = kind
Release(w) == [w EXCEPT !.wal.lockQ = Tail(@)]
\* the calls whose frame the segment writer holds or has written
Appended == { c \in DOMAIN calls : calls[c].index >= 0 }
\* the waiters of syncWaiters are resolved by a sync whose flush covered `covers`
Resolve(cs, waiters, covers) ==
  [c \in DOMAIN cs |->
     IF (\E j \in DOMAIN waiters : waiters[j] = c) /\ ~cs[c].resolved
     THEN [cs[c] EXCEPT !.resolved = TRUE, !.covered = c \in covers]
     ELSE cs[c]]

\* ------------------------------------------------------------ init
\* await wal.init()
InitWAL ==
  /\ ~wal.isInitialized
  /\ Quiescent
  /\ Becomes(walInit(World))
  /\ tsync' = IdleTimer
  /\ last' = IF last.op = "new" THEN [last EXCEPT !.op = "reopen"]
             ELSE IF last.op = "crash" THEN [last EXCEPT !.op = "restart"]
             ELSE LastNone
  /\ UNCHANGED << opts, calls, crit, restarts, budget >>

\* ------------------------------------------------------------ write
\* wal.write(entry) up to its wait for the lock: the waiter is pushed
WriteIssued(content) ==
  /\ Len(calls) < budget.writes
  /\ calls' = Append(calls, [pc |-> "queued", content |-> content, index |-> -1,
                             seg |-> -1, off |-> -1, resolved |-> FALSE,
                             covered |-> FALSE, turn |-> 0,
                             behind |-> Len(wal.lockQ)])
  /\ wal' = [wal EXCEPT !.syncWaiters = Append(@, Len(calls) + 1),
                        !.lockQ = Append(@, [k |-> "write", id |-> Len(calls) + 1])]
  /\ last' = IF last.op = "reopen" THEN [last EXCEPT !.op = "reopen+write"]
             ELSE IF last.op = "recover" /\ last.done /\ last.err = Null
                     /\ mm.header.head < last.pre.header.head
             THEN [last EXCEPT !.op = "recover+write"]
             ELSE LastNone
  /\ UNCHANGED << segs, meta, tmp, asegs, ameta, mm, opts, crit, tsync, restarts, budget >>

\* wal.write(entry) on an initialized coordinator
WriteCall(content) == wal.isInitialized /\ WriteIssued(content)
\* wal.write(entry) on a coordinator whose close() has completed
WriteClosed(content) == wal.isClosed /\ ~wal.isInitialized /\ WriteIssued(content)

\* the lock is granted to a write call: doWrite runs and the lock is released
DoWriteDone(c, r) ==
  IF r.err = Null
  THEN /\ Becomes(Release(r.w))
       /\ calls' = [calls EXCEPT ![c].pc = "awaitp", ![c].index = r.val,
                                 ![c].turn = Cardinality(Appended) + 1,
                                 ![c].seg = r.w.wal.currSegmentID,
                                 ![c].off = r.w.wal.currSegmentWriter.size
                                              - FRAME_HEADER_SIZE
                                              - Len(TextEncode(calls[c].content))]
       /\ crit' = crit
  ELSE IF r.err = "hang"
  THEN /\ Becomes(r.w)
       /\ calls' = [calls EXCEPT ![c].pc = "hung"]
       /\ crit' = [crit EXCEPT !.pc = "hung"]
  ELSE /\ Becomes(Release(r.w))
       /\ calls' = [calls EXCEPT ![c].pc = "failed"]
       /\ crit' = crit

DoWrite ==
  /\ HeadIs("write")
  /\ crit.pc = "none"
  /\ DoWriteDone(Head(wal.lockQ).id, doWrite(World, calls[Head(wal.lockQ).id].content))
  /\ UNCHANGED << opts, tsync, restarts, budget, last >>

\* the write call returns its index once its waiter is resolved
WriteReturn ==
  \E c \in DOMAIN calls :
    /\ calls[c].pc = "awaitp"
    /\ calls[c].resolved
    /\ calls' = [calls EXCEPT ![c].pc = "returned"]
    /\ UNCHANGED << segs, meta, tmp, asegs, ameta, mm, wal, opts, crit, tsync, restarts, budget, last >>

\* ------------------------------------------------------------ background sync
\* the task of scheduleSync is granted the lock and starts WAL.sync
\* a background sync whose task gives the lock back while its flush is pending
SyncFlushedUnlocked(r) ==
  IF r.err # Null
  THEN /\ Becomes(Release(r.w))
       /\ crit' = crit
  ELSE /\ Becomes(Release(r.w))
       /\ crit' = [pc |-> "syncing", covers |-> Appended]

SyncFlushed(r) ==
  IF r.err # Null
  THEN \* the task rejects: isSyncOngoing stays set
       /\ Becomes(Release(r.w))
       /\ crit' = crit
  ELSE /\ Becomes(r.w)
       /\ crit' = [pc |-> "syncing", covers |-> Appended]

SyncBegin ==
  /\ HeadIs("sync")
  /\ crit.pc = "none"
  /\ SyncFlushed(walSyncFlush(World))
  /\ UNCHANGED << opts, calls, tsync, restarts, budget, last >>

\* the flush completed: the waiters are resolved, the lock is released
SyncEnd ==
  /\ HeadIs("sync")
  /\ crit.pc = "syncing"
  /\ calls' = Resolve(calls, wal.syncWaiters, crit.covers)
  /\ wal' = [Release(walSyncResolve(World)).wal EXCEPT !.isSyncOngoing = FALSE]
  /\ crit' = NoCrit
  /\ UNCHANGED << segs, meta, tmp, asegs, ameta, mm, opts, tsync, restarts, budget, last >>

\* ------------------------------------------------------------ auto-sync timer
\* the interval fires: MetaFileManager.sync writes the header tail
TimerFire ==
  /\ mm.syncTimer
  /\ mm.header.open
  /\ tsync = "idle"
  /\ Becomes(mmWriteHeaderTail(World))
  /\ tsync' = "hdr"
  /\ UNCHANGED << opts, calls, crit, restarts, budget, last >>

\* the header write completed: the queue is concatenated and written
TimerConcat ==
  /\ tsync = "hdr"
  /\ IF mm.updatesQueue = << >>
     THEN /\ tsync' = IdleTimer
          /\ UNCHANGED << segs, meta, tmp, asegs, ameta, mm, wal >>
     ELSE /\ Becomes(mmWriteQueue(World, mm.updatesQueue, mm.updatesQueueFileOffset))
          /\ tsync' = "buf"
  /\ UNCHANGED << opts, calls, crit, restarts, budget, last >>

\* the queue write completed: the queue is replaced by an empty one
TimerDone ==
  /\ tsync = "buf"
  /\ Becomes(mmClearQueue(World))
  /\ tsync' = IdleTimer
  /\ UNCHANGED << opts, calls, crit, restarts, budget, last >>

\* ------------------------------------------------------------ commit, read
\* await wal.commit(index)
Commit(index) ==
  /\ mm.header.open
  /\ Becomes(mmCommit(World, index).w)
  /\ last' = LastNone
  /\ UNCHANGED << opts, calls, crit, tsync, restarts, budget >>

\* await wal.commitUpTo(index)
CommitUpTo(index) ==
  /\ mm.header.open
  /\ Becomes(commitUpTo(World, index).w)
  /\ last' = LastNone
  /\ UNCHANGED << opts, calls, crit, tsync, restarts, budget >>

\* await wal.getEntry(index): position() syncs the meta file first
GetEntry(index) ==
  /\ mm.header.open
  /\ Becomes(getEntry(World, index).w)
  /\ last' = LastNone
  /\ UNCHANGED << opts, calls, crit, tsync, restarts, budget >>

\* ------------------------------------------------------------ recover
\* await wal.recover(handler), the handler accepting the indices below k;
\* last.k is the first index the handler is asked about and rejects, or Head
Returned(l, r) ==
  /\ Becomes(r.w)
  /\ last' = Finished(l, r.err, FALSE)

Recover(k) ==
  /\ mm.header.open
  /\ ~wal.isClosed
  /\ Returned(LastOf("recover", Min(Max(k, mm.header.commit + 1), mm.header.head), World),
              recover(World, k))
  /\ UNCHANGED << opts, calls, crit, tsync, restarts, budget >>

\* ------------------------------------------------------------ compact, archive
NoMaintenanceQueued ==
  \A j \in DOMAIN wal.lockQ : wal.lockQ[j].k \in { "write", "sync" }

\* wal.compact() / wal.archive(dir) up to the wait for the lock
MaintenanceIssued(kind) ==
  /\ wal.hasMetaManager
  /\ wal' = [wal EXCEPT !.lockQ = Append(@, [k |-> kind, id |-> 0])]
  /\ last' = LastNone
  /\ UNCHANGED << segs, meta, tmp, asegs, ameta, mm, opts, calls, crit, tsync, restarts, budget >>

\* a client that makes one such call at a time
MaintenanceCall(kind) == NoMaintenanceQueued /\ MaintenanceIssued(kind)

CompactCall == MaintenanceCall("compact")
ArchiveCall == MaintenanceCall("archive")

\* the operation ends before its sync: it throws, or returns false
Rejected(w) ==
  /\ Becomes(Release(w))
  /\ last' = LastNone
  /\ crit' = crit

\* compact/archive return false before their sync
Refused(l, w) ==
  /\ Becomes(Release(w))
  /\ last' = Finished(l, Null, FALSE)
  /\ crit' = crit

\* the sync of an operation that holds the lock: its flush is issued
SyncStarted(l, r) ==
  IF r.err # Null THEN Rejected(r.w)
  ELSE /\ Becomes(r.w)
       /\ last' = l
       /\ crit' = [pc |-> "syncing", covers |-> Appended]

\* the operation ends after its sync, which resolved the waiters
Completed(r, val) ==
  /\ Becomes(Release(r.w))
  /\ last' = Finished(last, r.err, val)
  /\ calls' = Resolve(calls, wal.syncWaiters, crit.covers)
  /\ crit' = NoCrit

\* the same for an operation that returns a boolean
CompletedWith(r) == Completed(r, r.err = Null /\ r.val)

\* the lock is granted: the "no compaction needed" test, then the sync starts
MaintenanceBegin(kind) ==
  /\ HeadIs(kind)
  /\ crit.pc = "none"
  /\ IF ~mm.header.open
     THEN Rejected(World)
     ELSE IF noCompactionNeeded(World)
     THEN Refused(LastOf(kind, 0, World), World)
     ELSE SyncStarted(LastOf(kind, 0, World), walSyncFlush(World))
  /\ UNCHANGED << opts, calls, tsync, restarts, budget >>

CompactBegin == MaintenanceBegin("compact")
ArchiveBegin == MaintenanceBegin("archive")

\* the sync completed: the waiters are resolved, the meta file is compacted
\* and the segments before the one of Commit are removed
CompactEnd ==
  /\ HeadIs("compact")
  /\ crit.pc = "syncing"
  /\ CompletedWith(compactAfterSync(walSyncResolve(World)))
  /\ UNCHANGED << opts, tsync, restarts, budget >>

ArchiveEnd ==
  /\ HeadIs("archive")
  /\ crit.pc = "syncing"
  /\ CompletedWith(archiveAfterSync(walSyncResolve(World)))
  /\ UNCHANGED << opts, tsync, restarts, budget >>

\* ------------------------------------------------------------ compact, archive: step by step
\* WAL.compact / WAL.archive get past their two position tests
compactProceeds(w) ==
  /\ mmPosition(w, w.mm.header.commit).err = Null
  /\ mmPosition(w, w.mm.header.commit).val.segmentID # 0
  /\ mmPosition(w, w.mm.header.base).err = Null
  /\ mmPosition(w, w.mm.header.base).val.segmentID
       # mmPosition(w, w.mm.header.commit).val.segmentID
\* the segments they remove: firstSegmentID .. segmentID - 1
compactRange(w) ==
  mmPosition(w, w.mm.header.base).val.segmentID ..
    (mmPosition(w, w.mm.header.commit).val.segmentID - 1)

\* the sync completed and the meta manager's compact/archive starts: it
\* syncs, creates index.META.tmp and writes its header
MetaSwapBegin ==
  /\ HeadIs("compact") \/ HeadIs("archive")
  /\ crit.pc = "syncing"
  /\ compactProceeds(World)
  /\ Becomes(mmTmpCreated(mmSync(walSyncResolve(World))))
  /\ calls' = Resolve(calls, wal.syncWaiters, crit.covers)
  /\ crit' = [pc |-> "tmp", covers |-> {}, ids |-> compactRange(World)]
  /\ UNCHANGED << opts, tsync, restarts, budget, last >>

\* the operation returns false or throws at a position test
MetaSwapNotNeeded ==
  /\ ~compactProceeds(World)
  /\ CompactEnd \/ ArchiveEnd

MetaSwapStep(from, to, w) ==
  /\ crit.pc = from
  /\ Becomes(w)
  /\ crit' = [crit EXCEPT !.pc = to]
  /\ UNCHANGED << opts, calls, tsync, restarts, budget, last >>

MetaSwapCopy == MetaSwapStep("tmp", "copied", mmTmpCopied(World))
CompactUnlinkOld ==
  HeadIs("compact") /\ MetaSwapStep("copied", "unlinked", mmOldUnlinked(World))
ArchiveTruncateOld ==
  HeadIs("archive") /\ MetaSwapStep("copied", "truncated", mmOldTruncated(World))
ArchiveMoveOld == MetaSwapStep("truncated", "moved", mmOldMoved(World))

\* the rename, the re-read of the header, and the segments removed
MetaSwapDone(r) ==
  /\ Becomes(Release(r.w))
  /\ last' = Finished(last, r.err, r.err = Null /\ r.val)
  /\ crit' = NoCrit
  /\ UNCHANGED << opts, calls, tsync, restarts, budget >>

CompactFinish ==
  /\ crit.pc = "unlinked"
  /\ MetaSwapDone(compactUnlink(mmTmpRenamed(World), crit.ids))
ArchiveFinish ==
  /\ crit.pc = "moved"
  /\ MetaSwapDone(archiveMove(mmTmpRenamed(World), crit.ids))

\* ------------------------------------------------------------ close
\* wal.close() up to the wait for the lock
CloseIssued ==
  /\ wal.hasMetaManager
  /\ ~wal.isClosed
  /\ wal' = [wal EXCEPT !.lockQ = Append(@, [k |-> "close", id |-> Len(calls)])]
  /\ last' = LastNone
  /\ UNCHANGED << segs, meta, tmp, asegs, ameta, mm, opts, calls, crit, tsync, restarts, budget >>

\* a client that calls close() while none of its compact, archive or close
\* calls is pending
CloseCall == NoMaintenanceQueued /\ CloseIssued

\* wal.close() on a coordinator whose close() has completed
CloseAgain ==
  /\ wal.isClosed /\ ~wal.isInitialized
  /\ \A j \in DOMAIN wal.lockQ : wal.lockQ[j].k # "close"
  /\ wal' = [wal EXCEPT !.lockQ = Append(@, [k |-> "close", id |-> Len(calls)])]
  /\ last' = LastNone
  /\ UNCHANGED << segs, meta, tmp, asegs, ameta, mm, opts, calls, crit, tsync, restarts, budget >>

\* close() of a coordinator without a segment writer, or of one that is not
\* initialized, returns
Closed(l, w) ==
  /\ Becomes(Release(w))
  /\ last' = Finished(l, Null, FALSE)
  /\ crit' = crit

CloseBegin ==
  /\ HeadIs("close")
  /\ crit.pc = "none"
  /\ IF ~wal.isInitialized
     THEN Closed(LastOf("reclose", Head(wal.lockQ).id, World),
                 [World EXCEPT !.wal.isClosed = TRUE])
     ELSE IF ~wal.currSegmentWriter.exists
     THEN Closed(LastOf("close", Head(wal.lockQ).id, World),
                 closeNoWriter([World EXCEPT !.wal.isClosed = TRUE]))
     ELSE SyncStarted(LastOf("close", Head(wal.lockQ).id, World),
                      walSyncFlush([World EXCEPT !.wal.isClosed = TRUE]))
  /\ UNCHANGED << opts, calls, tsync, restarts, budget >>

CloseEnd ==
  /\ HeadIs("close")
  /\ crit.pc = "syncing"
  /\ Completed(closeAfterSync(walSyncResolve(World)), FALSE)
  /\ UNCHANGED << opts, tsync, restarts, budget >>

\* ------------------------------------------------------------ restart, crash
\* new WAL(path, opts) on the directory of a closed coordinator
NewCoordinator ==
  /\ restarts < budget.restarts
  /\ wal.isClosed /\ ~wal.isInitialized
  /\ Quiescent
  /\ wal' = NewWAL(opts)
  /\ mm' = NoManager
  /\ tsync' = IdleTimer
  /\ restarts' = restarts + 1
  /\ budget' = budget
  /\ last' = IF last.op = "close" /\ last.done /\ last.err = Null
             THEN [last EXCEPT !.op = "new"] ELSE LastNone
  /\ UNCHANGED << segs, meta, tmp, asegs, ameta, opts, calls, crit >>

\* the process dies: its memory is gone, the bytes handed to the files stay;
\* a new coordinator is constructed on the directory
Crash ==
  /\ restarts < budget.restarts
  /\ wal.isInitialized
  /\ wal' = NewWAL(opts)
  /\ mm' = NoManager
  /\ tsync' = IdleTimer
  /\ crit' = NoCrit
  /\ calls' = [c \in DOMAIN calls |->
                 IF calls[c].pc \in { "queued", "awaitp", "hung" }
                 THEN [calls[c] EXCEPT !.pc = "lost"] ELSE calls[c]]
  /\ restarts' = restarts + 1
  /\ budget' = budget
  /\ last' = [LastNone EXCEPT !.op = "crash"]
  /\ UNCHANGED << segs, meta, tmp, asegs, ameta, opts >>

\* ------------------------------------------------------------ specifications
\* the timer's sync, which runs between the steps of everything else
Timer == TimerFire \/ TimerConcat \/ TimerDone
\* the tasks that hold the write lock
LockSteps ==
  \/ DoWrite \/ SyncBegin \/ SyncEnd
  \/ CompactBegin \/ CompactEnd
  \/ ArchiveBegin \/ ArchiveEnd
  \/ CloseBegin \/ CloseEnd

\* one client that awaits every call before it makes the next, its calls
\* made between two firings of the timer
Next ==
  \/ InitWAL
  \/ \E content \in Contents : Quiescent /\ WriteCall(content)
  \/ WriteReturn
  \/ \E index \in 0..MaxWrites : Quiescent /\ Commit(index)
  \/ \E index \in 0..MaxWrites : Quiescent /\ CommitUpTo(index)
  \/ \E index \in 0..(MaxWrites - 1) : Quiescent /\ GetEntry(index)
  \/ \E k \in 0..MaxWrites : Quiescent /\ Recover(k)
  \/ Quiescent /\ CompactCall
  \/ Quiescent /\ ArchiveCall
  \/ Quiescent /\ CloseCall
  \/ NewCoordinator
  \/ LockSteps

Spec == Init /\ [][Next]_vars

\* concurrent write calls on a fresh directory, the timer firing in between
NextWrites ==
  \/ InitWAL
  \/ \E content \in Contents : WriteCall(content)
  \/ DoWrite
  \/ SyncBegin
  \/ SyncEnd
  \/ WriteReturn
  \/ Timer

SpecWrites == Init /\ [][NextWrites]_vars

\* concurrent write, commit, compact, archive and close calls
NextConc ==
  \/ InitWAL
  \/ \E content \in Contents : Len(content) = 1 /\ WriteCall(content)
  \/ WriteReturn
  \/ \E index \in 0..(MaxWrites - 1) : Commit(index)
  \/ CompactCall
  \/ ArchiveCall
  \/ CloseCall
  \/ LockSteps

SpecConc == Init /\ [][NextConc]_vars

\* one client and a process that can die at any point
NextCrash ==
  \/ InitWAL
  \/ \E content \in Contents : Quiescent /\ WriteCall(content)
  \/ DoWrite
  \/ SyncBegin
  \/ SyncEnd
  \/ WriteReturn
  \/ \E index \in 0..(MaxWrites - 1) : Quiescent /\ Commit(index)
  \/ Timer
  \/ Crash

InitCrash == \E o \in Options : InitWith(o, [writes |-> MaxWrites, restarts |-> CrashRestarts])

SpecCrash == InitCrash /\ [][NextCrash]_vars

\* one client that writes, commits, compacts and archives a log of one frame
\* per segment
NextCompact ==
  \/ InitWAL
  \/ \E content \in Contents : Quiescent /\ WriteCall(content)
  \/ DoWrite
  \/ SyncBegin
  \/ SyncEnd
  \/ WriteReturn
  \/ \E index \in 0..(CompactWrites - 1) : Quiescent /\ Commit(index)
  \/ Quiescent /\ CompactCall
  \/ CompactBegin
  \/ CompactEnd
  \/ Quiescent /\ ArchiveCall
  \/ ArchiveBegin
  \/ ArchiveEnd

InitCompact ==
  \E o \in Options :
    /\ o.maxSegmentSize = 10
    /\ InitWith(o, [writes |-> CompactWrites, restarts |-> 0])

SpecCompact == InitCompact /\ [][NextCompact]_vars

\* one client that writes, commits, recovers, closes and reopens while the
\* timer fires
NextTimer ==
  \/ InitWAL
  \/ \E content \in Contents : Quiescent /\ WriteCall(content)
  \/ DoWrite
  \/ SyncBegin
  \/ SyncEnd
  \/ WriteReturn
  \/ \E index \in 0..(MaxWrites - 1) : Quiescent /\ Commit(index)
  \/ \E k \in 0..MaxWrites : Quiescent /\ Recover(k)
  \/ Quiescent /\ CloseCall
  \/ CloseBegin
  \/ CloseEnd
  \/ NewCoordinator
  \/ Timer

SpecTimer == Init /\ [][NextTimer]_vars

\* concurrent write and close calls, before and after close has completed,
\* the timer firing in between
NextClose ==
  \/ InitWAL
  \/ \E content \in Contents : Len(content) = 1 /\ WriteCall(content)
  \/ \E content \in Contents : Len(content) = 1 /\ WriteClosed(content)
  \/ DoWrite
  \/ SyncBegin
  \/ SyncEnd
  \/ WriteReturn
  \/ CloseCall
  \/ CloseAgain
  \/ CloseBegin
  \/ CloseEnd
  \/ Timer

SpecClose == Init /\ [][NextClose]_vars

\* a task of the kind holds or awaits the lock
Queued(kind) == \E j \in DOMAIN wal.lockQ : wal.lockQ[j].k = kind
\* clients that call write, compact, archive and close while calls of the
\* other kinds hold or await the lock
NextLock ==
  \/ InitWAL
  \/ \E content \in Contents : Len(content) = 1 /\ WriteCall(content)
  \/ WriteReturn
  \/ \E index \in 0..(LockWrites - 1) : Commit(index)
  \/ ~Queued("compact") /\ MaintenanceIssued("compact")
  \/ ~Queued("archive") /\ MaintenanceIssued("archive")
  \/ ~Queued("close") /\ CloseIssued
  \/ LockSteps

InitLock ==
  \E o \in Options : InitWith(o, [writes |-> LockWrites, restarts |-> 0])

SpecLock == InitLock /\ [][NextLock]_vars

\* one client that writes, commits and recovers a log of one or of several
\* frames per segment, and writes again
NextRecover ==
  \/ InitWAL
  \/ \E content \in Contents : Quiescent /\ WriteCall(content)
  \/ DoWrite
  \/ SyncBegin
  \/ SyncEnd
  \/ WriteReturn
  \/ \E index \in 0..(RecoverWrites - 1) : Quiescent /\ Commit(index)
  \/ \E k \in 0..RecoverWrites : Quiescent /\ Recover(k)

InitRecover ==
  \E o \in Options : InitWith(o, [writes |-> RecoverWrites, restarts |-> 0])

SpecRecover == InitRecover /\ [][NextRecover]_vars

\* concurrent write calls of records that fit the writer's buffer and of one
\* that does not, every task that can run being run eventually
LiveContents == Contents \cup { << 99, 99, 99, 99 >> }

NextLive ==
  \/ InitWAL
  \/ \E content \in LiveContents : WriteCall(content)
  \/ DoWrite
  \/ SyncBegin
  \/ SyncEnd
  \/ WriteReturn

\* the states in which a task that holds the lock can start
CanDoWrite == HeadIs("write") /\ crit.pc = "none"
CanSyncBegin == HeadIs("sync") /\ crit.pc = "none"

\* weak fairness of DoWrite and of SyncBegin, with ENABLED written out as the
\* guard of the action: each of them changes the state whenever its guard holds
FairDoWrite == []<>(~CanDoWrite) \/ []<><<DoWrite>>_vars
FairSyncBegin == []<>(~CanSyncBegin) \/ []<><<SyncBegin>>_vars

\* the event loop runs every task that is ready: the holder of the lock, the
\* continuation of a sync's flush, the continuation of a resolved promise
SpecLive ==
  /\ Init /\ [][NextLive]_vars
  /\ FairDoWrite /\ FairSyncBegin
  /\ WF_vars(SyncEnd) /\ WF_vars(WriteReturn)

\* ------------------------------------------------------------ the buffered writer alone
\* a buffer of n bytes
Filled(n) == [i \in 1..n |-> n]
\* the data handed to BufferedWriter.write: shorter than the buffer, as long
\* as the buffer, and longer
BufferInputs == { Filled(1), Filled(7), Filled(bufferSize), Filled(bufferSize + 1) }

\* a segment file is opened and a SegmentWriter made for it
BwOpen ==
  /\ wal.isInitialized
  /\ ~wal.currSegmentWriter.exists
  /\ Becomes(rollSegmentIfNeeded(World).w)
  /\ UNCHANGED << opts, calls, crit, tsync, restarts, budget, last >>

\* the outcome of a BufferedWriter.write as the state of the call
BwCallOf(data, err) ==
  [pc |-> IF err = Null THEN "returned" ELSE IF err = "hang" THEN "hung" ELSE "failed",
   content |-> data, index |-> -1, seg |-> -1, off |-> -1, resolved |-> FALSE,
   covered |-> FALSE, turn |-> 0, behind |-> 0]

BwWritten(data, r) ==
  /\ Becomes(r.w)
  /\ calls' = Append(calls, BwCallOf(data, r.err))

\* await writer.write(data), awaited before the next call
BwWrite(data) ==
  /\ wal.currSegmentWriter.exists
  /\ Len(calls) < budget.writes
  /\ \A c \in DOMAIN calls : calls[c].pc = "returned"
  /\ BwWritten(data, bwWrite(World, data))
  /\ UNCHANGED << opts, crit, tsync, restarts, budget, last >>

\* await writer.flush()
BwFlush ==
  /\ wal.currSegmentWriter.exists
  /\ wal.currSegmentWriter.buf # << >>
  /\ \A c \in DOMAIN calls : calls[c].pc = "returned"
  /\ Becomes(bwFlush(World).w)
  /\ UNCHANGED << opts, calls, crit, tsync, restarts, budget, last >>

NextBuffer ==
  \/ InitWAL
  \/ BwOpen
  \/ \E data \in BufferInputs : BwWrite(data)
  \/ BwFlush

SpecBuffer == Init /\ [][NextBuffer]_vars

\* one client that compacts and archives, the meta manager's file operations
\* taken one at a time, and a process that can die between any two
NextSwap ==
  \/ InitWAL
  \/ \E content \in Contents : Quiescent /\ WriteCall(content)
  \/ DoWrite
  \/ SyncBegin
  \/ SyncEnd
  \/ WriteReturn
  \/ \E index \in 0..(MaxWrites - 1) : Quiescent /\ Commit(index)
  \/ Quiescent /\ CompactCall
  \/ Quiescent /\ ArchiveCall
  \/ CompactBegin
  \/ ArchiveBegin
  \/ MetaSwapNotNeeded
  \/ MetaSwapBegin
  \/ MetaSwapCopy
  \/ CompactUnlinkOld
  \/ CompactFinish
  \/ ArchiveTruncateOld
  \/ ArchiveMoveOld
  \/ ArchiveFinish
  \/ Crash

SpecSwap == Init /\ [][NextSwap]_vars

\* ------------------------------------------------------------ properties
IsPrefix(a, b) == Len(a) <= Len(b) /\ SubSeq(b, 1, Len(a)) = a

\* the write calls that returned an index to their caller
Acknowledged == { c \in DOMAIN calls : calls[c].pc = "returned" }
\* the call that wrote index i last
LatestCall(i) == SetMax({ c \in Appended : calls[c].index = i })
\* the call that was the t-th to append a frame
CallOfTurn(t) == CHOOSE c \in Appended : calls[c].turn = t
\* the frames of the appended records in the order of their turns
ExpectedFrames ==
  [t \in 1..Cardinality(Appended) |->
     [index |-> t - 1, content |-> calls[CallOfTurn(t)].content]]
\* getEntry(i) returns the entry of index i with the given content
Returns(w, i, content) == Outcome(getEntry(w, i)) = ReadEntry(i, content)

\* C1: a write call returns only after a segment sync that began after the
\* record's frame was appended to the segment writer has completed: the
\* waiter of a returned call was resolved by a sync that covers its record.
C1_ReturnAfterCoveringSync ==
  \A c \in Acknowledged : calls[c].covered

\* C2: no acknowledged write is lost by a crash: once a new coordinator has
\* run init after the process died, every index i a write call returned is
\* below Head and getEntry(i) returns the entry that was written.
C2_NoAcknowledgedWriteLost ==
  (last.op = "restart") =>
    \A c \in Acknowledged :
      /\ calls[c].index < mm.header.head
      /\ Returns(World, calls[c].index, calls[c].content)

\* C3: concurrent write calls on a fresh log get the consecutive indices
\* 0, 1, ... in the order in which they acquire the write lock, and the frames
\* in the segment files, read in segment-ID order, are these records in index
\* order, none missing or duplicated (all of them once the sync has run).
C3_ConsecutiveIndicesInLockOrder ==
  /\ \A c \in Appended : calls[c].index = calls[c].turn - 1
  /\ \A c, d \in Appended : c < d => calls[c].turn < calls[d].turn
  /\ IsPrefix(readWALContent(segs), ExpectedFrames)
  /\ (wal.lockQ = << >> /\ crit.pc = "none") => readWALContent(segs) = ExpectedFrames

\* three write calls, one of them made while another held or awaited the
\* lock, returned and their frames span a rollover
C3_Witness ==
  /\ Cardinality(Acknowledged) = MaxWrites
  /\ \E c \in Acknowledged : calls[c].behind >= 1
  /\ Cardinality(DOMAIN segs) >= 2
  /\ wal.lockQ = << >>
  /\ restarts = 0

\* the header fields of the coordinator and those before the last operation
Hdr == mm.header
PreHdr == last.pre.header
\* some call wrote index i
WasWritten(i) == \E c \in Appended : calls[c].index = i
\* the indices of the frames that can be read from the live segment files
LiveFrameIndices ==
  { readWALContent(segs)[j].index : j \in 1..Len(readWALContent(segs)) }

\* C4: in an initialized coordinator with no call pending, for every i in
\* [Base, Head) position(i) points to a frame whose Index is i and whose
\* payload is the one written for i.
C4_PositionPointsToFrame ==
  (wal.isInitialized /\ Hdr.open /\ Quiescent) =>
    \A i \in Hdr.base .. (Hdr.head - 1) :
      WasWritten(i) /\ Returns(World, i, calls[LatestCall(i)].content)

\* C5: in every state of an initialized coordinator Base <= Commit + 1 <= Head.
C5_CommitWithinBounds ==
  (wal.isInitialized /\ Hdr.open) =>
    /\ Hdr.base <= Hdr.commit + 1
    /\ Hdr.commit + 1 <= Hdr.head

\* C6: the first write after init on a directory that holds segments is
\* placed at the end of the highest-numbered segment (its offset is the
\* length that segment had) and leaves every byte written before in place.
C6_ResumeAtEndOfLastSegment ==
  ( /\ last.op = "reopen+write"
    /\ DOMAIN last.pre.segs # {}
    /\ calls[Len(calls)].pc = "returned" ) =>
    /\ calls[Len(calls)].seg = SetMax(DOMAIN last.pre.segs)
    /\ calls[Len(calls)].off = Len(last.pre.segs[SetMax(DOMAIN last.pre.segs)])
    /\ \A sg \in DOMAIN last.pre.segs :
         sg \in DOMAIN segs /\ IsPrefix(last.pre.segs[sg], segs[sg])

\* C7: after close and init of a new coordinator on the directory, Head,
\* Commit, Base and CurrentSegment are what they were before close, and
\* getEntry returns for every committed record what it returned before.
C7_CloseInitPreserves ==
  (last.op = "reopen") =>
    /\ Hdr = PreHdr
    /\ \A i \in PreHdr.base .. Min(PreHdr.commit, PreHdr.head - 1) :
         Outcome(getEntry(World, i)) = last.pre.got[i]

\* C8: recover(handler) from Commit # -1 and Commit < Head - 1, the handler
\* rejecting k first: afterwards Head = k, Commit = k - 1, the records below k
\* read as before and no frame of an index >= k is left in a live segment;
\* the handler accepting all: Commit = Head - 1 and Head is unchanged.
C8_RecoverPostconditions ==
  ( /\ last.op = "recover" /\ last.done
    /\ PreHdr.commit # -1
    /\ PreHdr.commit < PreHdr.head - 1 ) =>
    IF last.k < PreHdr.head
    THEN /\ Hdr.head = last.k
         /\ Hdr.commit = last.k - 1
         /\ \A i \in PreHdr.base .. (last.k - 1) :
              Outcome(getEntry(World, i)) = last.pre.got[i]
         /\ \A i \in LiveFrameIndices : i < last.k
    ELSE /\ Hdr.commit = Hdr.head - 1
         /\ Hdr.head = PreHdr.head

\* C9: recover() with the default handler, which rejects the first entry it
\* is asked about, leaves Head = Commit + 1, from every state with
\* Commit + 1 <= Head, the one with Commit = -1 and Head > 0 included.
C9_DefaultRecoverDropsUncommitted ==
  ( /\ last.op = "recover" /\ last.done
    /\ PreHdr.commit + 1 <= PreHdr.head
    /\ last.k = PreHdr.commit + 1 ) =>
    Hdr.head = Hdr.commit + 1

\* C10: a compact() that returns true leaves Base = Commit_pre + 1, leaves
\* Head, Commit and CurrentSegment as they were, leaves no segment file with
\* an ID below segmentOf(Commit_pre) and keeps every segment from it on.
C10_CompactPostconditions ==
  (last.op = "compact" /\ last.done /\ last.val) =>
    /\ Hdr.base = PreHdr.commit + 1
    /\ Hdr.head = PreHdr.head
    /\ Hdr.commit = PreHdr.commit
    /\ Hdr.segment = PreHdr.segment
    /\ wal.currSegmentID = last.pre.currSegmentID
    /\ \A sg \in DOMAIN segs : sg >= calls[LatestCall(PreHdr.commit)].seg
    /\ \A sg \in DOMAIN last.pre.segs :
         sg >= calls[LatestCall(PreHdr.commit)].seg => sg \in DOMAIN segs

\* ------------------------------------------------------------ compact, archive: no-ops
\* the segment position(i) names, -1 when position throws
SegmentOf(i) ==
  IF mmPosition(World, i).err # Null THEN -1 ELSE mmPosition(World, i).val.segmentID
\* compact() or archive(dir) holds the lock and this step ends it
MaintenanceEnds ==
  /\ mm.header.open
  /\ HeadIs("compact") \/ HeadIs("archive")
  /\ wal'.lockQ = Tail(wal.lockQ)
\* the cases in which compact and archive have nothing to do
NothingToCompact ==
  \/ Hdr.commit = -1
  \/ Hdr.commit = Hdr.head - 1
  \/ Hdr.commit - Hdr.base < wal.minEntriesForCompaction
  \/ SegmentOf(Hdr.commit) = 0
  \/ SegmentOf(Hdr.commit) >= 0 /\ SegmentOf(Hdr.commit) = SegmentOf(Hdr.base)

RemovedSegments == (DOMAIN last.pre.segs) \ (DOMAIN segs)
\* the segment files the last operation added to the archive directory
ArchivedSegments == (DOMAIN asegs) \ (DOMAIN last.pre.asegs)

\* C12: an archive(dir) that returns true leaves Base = Commit_pre + 1, leaves
\* Head, Commit and CurrentSegment as they were, leaves no live segment file
\* with an ID below segmentOf(Commit_pre), and exactly the segment files it
\* removed from the live directory are in dir, under their names and with
\* their contents.
C12_ArchivePostconditions ==
  (last.op = "archive" /\ last.done /\ last.val) =>
    /\ Hdr.base = PreHdr.commit + 1
    /\ Hdr.head = PreHdr.head
    /\ Hdr.commit = PreHdr.commit
    /\ Hdr.segment = PreHdr.segment
    /\ wal.currSegmentID = last.pre.currSegmentID
    /\ \A sg \in DOMAIN segs : sg >= calls[LatestCall(PreHdr.commit)].seg
    /\ ArchivedSegments = RemovedSegments
    /\ \A sg \in RemovedSegments : asegs[sg] = last.pre.segs[sg]

\* ------------------------------------------------------------ dead segments
\* the indices of the frames of segment sg
FrameIndicesOf(sg) ==
  { readWALContent(sg :> segs[sg])[j].index : j \in 1..Len(readWALContent(sg :> segs[sg])) }
\* a dead segment: it holds records and all of them are at or below Commit
DeadSegment(sg) ==
  /\ FrameIndicesOf(sg) # {}
  /\ \A i \in FrameIndicesOf(sg) : i <= Hdr.commit

\* C13: a compact() that returns true removes all dead segments: afterwards
\* no live segment has all its records at or below Commit, the segment whose
\* last record is Commit included.
C13_CompactRemovesDeadSegments ==
  (last.op = "compact" /\ last.done /\ last.val) =>
    \A sg \in DOMAIN segs : ~DeadSegment(sg)

\* ------------------------------------------------------------ directory
\* C14: in every quiescent state of an initialized coordinator whose log
\* holds a record at Base, the live directory holds exactly the segment files
\* with an ID in [segmentOf(Base), CurrentSegment].
C14_DirectoryInvariant ==
  (wal.isInitialized /\ Hdr.open /\ Quiescent /\ SegmentOf(Hdr.base) >= 0) =>
    DOMAIN segs = SegmentOf(Hdr.base) .. Hdr.segment

\* ------------------------------------------------------------ indices
\* the write calls that returned index i
ReturnedIndex(i) == { c \in Acknowledged : calls[c].index = i }

InsideMetaSwap == crit.pc \in { "tmp", "copied", "unlinked", "truncated", "moved" }
\* index.META exists and has a slot for every index in [Base, Head) of the log
MetaDescribesLog ==
  /\ meta.exists
  /\ meta.base = Hdr.base /\ meta.head = Hdr.head
  /\ Len(meta.slots) >= Hdr.head - Hdr.base

\* C16: at every point inside MetaFileManager.compact or .archive at which
\* the process can die, the directory holds the old index.META, alone or with
\* index.META.tmp: never no index.META, never one that no longer describes
\* the log.
C16_MetaSwapCrashSafe ==
  InsideMetaSwap => MetaDescribesLog

\* ------------------------------------------------------------ closed
\* close() has completed on this coordinator
CloseCompleted == wal.isClosed /\ ~wal.isInitialized
\* the task at the head of the lock queue runs and leaves the queue
LockStepOf(kind) == HeadIs(kind) /\ crit.pc = "none" /\ wal'.lockQ = Tail(wal.lockQ)

\* C17: once close() has completed, a write fails with the Closed error and
\* changes neither a segment file nor index.META; a second close() returns
\* without error and changes nothing.
C17_ClosedRejectsWrites ==
  [][ /\ (wal.isClosed /\ crit.pc = "none") =>
           /\ segs' = segs /\ meta' = meta /\ tmp' = tmp
           /\ LockStepOf("write") =>
                /\ doWrite(World, calls[Head(wal.lockQ).id].content).err = "Closed"
                /\ calls'[Head(wal.lockQ).id].pc = "failed"
      /\ (CloseCompleted /\ LockStepOf("close")) =>
           /\ last'.op = "reclose" /\ last'.done /\ last'.err = Null
           /\ wal' = [wal EXCEPT !.lockQ = Tail(@)]
           /\ mm' = mm ]_vars

\* after close() completed, a write failed and a second close() returned
C17_Witness ==
  /\ CloseCompleted
  /\ last.op = "reclose" /\ last.done
  /\ \E c \in DOMAIN calls : calls[c].pc = "failed"
  /\ \E c \in DOMAIN calls : calls[c].pc = "returned"

\* ------------------------------------------------------------ close completes writes
\* close() resolved without error; last.k write calls were made before it
CloseResolved == last.op = "close" /\ last.done /\ last.err = Null
\* the frame of call c is in its segment file at the offset it was given
FrameFlushed(c) ==
  /\ calls[c].seg \in DOMAIN segs
  /\ readOffset(segs[calls[c].seg], calls[c].off) = ReadEntry(calls[c].index, calls[c].content)
\* the index entry of call c is in index.META under the header's Head
IndexFlushed(c) ==
  /\ meta.exists /\ meta.head > calls[c].index
  /\ calls[c].index - meta.base + 1 \in DOMAIN meta.slots
  /\ meta.slots[calls[c].index - meta.base + 1] = << calls[c].seg, calls[c].off >>

\* C18: when close() resolves, every write call made before close() was
\* called has its frame in the segment file, its index entry in index.META
\* and its waiter resolved, and returns its index.
C18_CloseCompletesPendingWrites ==
  CloseResolved =>
    \A c \in 1..last.k :
      /\ calls[c].pc \in { "awaitp", "returned" }
      /\ calls[c].index >= 0
      /\ calls[c].resolved
      /\ FrameFlushed(c)
      /\ IndexFlushed(c)

\* ------------------------------------------------------------ lifecycle
\* C19: Closed is terminal: once close() has completed, no step of the same
\* coordinator makes isInitialized true again or opens a segment writer or
\* the meta file; and init() on an initialized coordinator changes nothing.
C19_ClosedIsTerminal ==
  [][ /\ (CloseCompleted /\ wal'.isClosed) =>
           /\ ~wal'.isInitialized
           /\ ~wal'.currSegmentWriter.exists
           /\ ~mm'.header.open
      /\ wal.isInitialized => walInit(World) = World ]_vars

\* ------------------------------------------------------------ mutual exclusion
\* the tasks that can be inside the critical section the coordinator is in
HolderKinds ==
  IF crit.pc = "hung" THEN { "write" }
  ELSE IF crit.pc = "syncing" THEN { "sync", "compact", "archive", "close" }
  ELSE { "compact", "archive" }
\* a critical section is in progress and the task at the head of the lock
\* queue is the one inside it
SectionHeld == wal.lockQ # << >> /\ Head(wal.lockQ).k \in HolderKinds
\* the step runs doWrite for call c
WriteEnters(c) == calls[c].pc = "queued" /\ calls'[c].pc # "queued"
\* the step rolls the segment
Rolls == wal.isInitialized /\ wal'.isInitialized /\ wal'.currSegmentID # wal.currSegmentID

\* C20: the critical sections of write, the background sync, rollover,
\* compact, archive and close exclude each other: a section in progress
\* belongs to the task at the head of the lock queue and stays with it until
\* it ends; meanwhile no write runs doWrite, no segment is rolled and no close
\* begins; a section begins and a write or a rollover runs only for the task
\* at the head while no section is in progress; the lock passes in FIFO order.
C20_MutualExclusion ==
  /\ [](crit.pc # "none" => SectionHeld)
  /\ [][ /\ crit.pc # "none" =>
             /\ \A c \in DOMAIN calls : ~WriteEnters(c)
             /\ ~Rolls
             /\ wal'.isClosed = wal.isClosed
             /\ \/ crit'.pc # "none" /\ Head(wal'.lockQ) = Head(wal.lockQ)
                \/ crit'.pc = "none" /\ IsPrefix(Tail(wal.lockQ), wal'.lockQ)
        /\ crit.pc = "none" =>
             /\ \A c \in DOMAIN calls :
                  WriteEnters(c) => Head(wal.lockQ) = [k |-> "write", id |-> c]
             /\ Rolls => HeadIs("write")
             /\ (wal'.isClosed # wal.isClosed) => HeadIs("close")
             /\ crit'.pc # "none" =>
                  wal.lockQ # << >> /\ Head(wal'.lockQ) = Head(wal.lockQ)
        /\ \/ IsPrefix(wal.lockQ, wal'.lockQ)
           \/ wal.lockQ # << >> /\ IsPrefix(Tail(wal.lockQ), wal'.lockQ) ]_vars

\* a compact holds the lock inside its sync while a write and a close wait
C20_Witness ==
  /\ crit.pc = "syncing"
  /\ HeadIs("compact")
  /\ \E j \in DOMAIN wal.lockQ : wal.lockQ[j].k = "write"
  /\ \E j \in DOMAIN wal.lockQ : wal.lockQ[j].k = "close"

\* ------------------------------------------------------------ segment size
\* the length <seg>.wal has once the current writer's buffer is flushed
SegmentLength(sg) ==
  IF wal.currSegmentWriter.exists /\ wal.currSegmentWriter.fh.seg = sg
  THEN IF wal.currSegmentWriter.fh.flag = "r+"
       THEN Max(Len(segs[sg]), wal.currSegmentWriter.fh.pos + Len(wal.currSegmentWriter.buf))
       ELSE Len(segs[sg]) + Len(wal.currSegmentWriter.buf)
  ELSE Len(segs[sg])
\* the step is a doWrite of call c that put a frame into a segment
FrameWritten(c) == calls[c].pc = "queued" /\ calls'[c].pc = "awaitp"

\* C21: a record is put into a segment only if the segment is new or its
\* length before the write is below maxSegmentSize, also when the segment
\* was reopened by init or cut by a recover truncation before.
C21_AppendBelowMaxSegmentSize ==
  [][ \A c \in DOMAIN calls :
        (FrameWritten(c) /\ calls'[c].seg \in DOMAIN segs) =>
          SegmentLength(calls'[c].seg) < wal.maxSegmentSize ]_vars

\* ------------------------------------------------------------ meta manager contracts
\* the indices the meta manager is called with
ProbeIndices == -1 .. (MaxWrites + 1)
\* commit(index) in the current state did what its case prescribes
CommitDid(index, r) ==
  IF index <= Hdr.commit
  THEN r.err = Null /\ r.val = Hdr.commit /\ r.w = World
  ELSE IF index > Hdr.commit + 1
  THEN r.err = "OutOfOrderCommit" /\ r.w = World
  ELSE /\ r.err = Null /\ r.val = index
       /\ r.w.mm.header = [Hdr EXCEPT !.commit = index]
       /\ r.w.segs = segs
       /\ r.w.meta.slots = meta.slots /\ r.w.meta.head = meta.head

\* C22: commit(index) returns Commit and changes nothing for index <= Commit,
\* fails with OutOfOrderCommit and changes nothing for index > Commit + 1, and
\* sets Commit to index for index = Commit + 1; so Commit of an open manager
\* changes only by +1.
C22_CommitContract ==
  /\ [](Hdr.open => \A index \in ProbeIndices : CommitDid(index, mmCommit(World, index)))
  /\ [][ (Hdr.open /\ mm'.header.open /\ mm'.header.commit # Hdr.commit) =>
           mm'.header.commit = Hdr.commit + 1 ]_vars

\* Commit advanced twice and an index above Commit + 1 exists below Head
C22_Witness ==
  /\ Hdr.open /\ Hdr.commit = 1 /\ Hdr.head = 3
  /\ mmCommit(World, 0).val = 1
  /\ mmCommit(World, 3).err = "OutOfOrderCommit"

\* what position(i) gives to its caller in world w
PositionOutcome(w, i) == [err |-> mmPosition(w, i).err, val |-> mmPosition(w, i).val]
\* truncate(k) in the current state did what its case prescribes
TruncateDid(k, r) ==
  IF k <= Hdr.commit \/ k >= Hdr.head
  THEN /\ r.w = World
       /\ k > Hdr.commit => r.err = "OutOfBounds"
       /\ k < Hdr.head => r.err = "TruncateCommitted"
       /\ r.err \in { "OutOfBounds", "TruncateCommitted" }
  ELSE /\ r.err = Null
       /\ r.w.mm.header = [Hdr EXCEPT !.head = k]
       /\ \A i \in Hdr.base .. (k - 1) : PositionOutcome(r.w, i) = PositionOutcome(World, i)

\* C23: truncate(k) fails with TruncateCommitted for k <= Commit and with
\* OutOfBounds for k >= Head and then changes nothing; otherwise Head becomes
\* k, Commit stays and position(i) is as before for every i in [Base, k).
C23_TruncateContract ==
  Hdr.open => \A k \in ProbeIndices : TruncateDid(k, mmTruncate(World, k))

\* recover has truncated a log with a committed prefix: the truncate it made
\* succeeded, and one at Commit or at Head fails
C23_Witness ==
  /\ last.op = "recover" /\ last.done /\ last.err = Null
  /\ Hdr.open /\ Hdr.head < PreHdr.head
  /\ Hdr.commit >= 0
  /\ mmTruncate(World, Hdr.commit).err = "TruncateCommitted"
  /\ mmTruncate(World, Hdr.head).err = "OutOfBounds"

\* the segment IDs and byte offsets the meta manager is asked to append
ProbeSegments == 0 .. (MaxWrites + 1)
ProbeOffsets == { 0, 14 }
\* write(sg, off) in the current state did what its case prescribes
WriteDid(sg, off, r) ==
  IF sg < Hdr.segment
  THEN r.err = "OutOfOrderSegment" /\ r.w = World
  ELSE /\ r.err = Null
       /\ r.val = Hdr.head
       /\ r.w.mm.header = [Hdr EXCEPT !.head = Hdr.head + 1, !.segment = Max(Hdr.segment, sg)]
       /\ PositionOutcome(r.w, r.val) = [err |-> Null, val |-> [segmentID |-> sg, offset |-> off]]
\* the segment ID position(i) returns in the current state
SegmentAt(i) == mmPosition(World, i).val.segmentID

\* C24: write(segmentID, byteOffset) fails with OutOfOrderSegment and changes
\* nothing when segmentID < CurrentSegment; otherwise it returns the old Head,
\* Head grows by 1, CurrentSegment is the larger of the two and position of
\* the returned index is (segmentID, byteOffset); the segment IDs of the
\* entries in [Base, Head) never decrease.
C24_AppendContract ==
  Hdr.open =>
    /\ \A sg \in ProbeSegments : \A off \in ProbeOffsets :
         WriteDid(sg, off, mmWrite(World, sg, off))
    /\ \A i, j \in Hdr.base .. (Hdr.head - 1) : i < j => SegmentAt(i) <= SegmentAt(j)

\* ------------------------------------------------------------ bounds of reads
InLog(i) == Hdr.base <= i /\ i < Hdr.head

\* C25: position(index) and getEntry(index) fail with OutOfBounds exactly for
\* index < Base or index >= Head and succeed for every index in [Base, Head),
\* also after a compact has moved Base.
C25_ReadBounds ==
  (wal.isInitialized /\ Hdr.open /\ Quiescent) =>
    \A i \in ProbeIndices :
      /\ (mmPosition(World, i).err = "OutOfBounds") <=> ~InLog(i)
      /\ (getEntry(World, i).err = "OutOfBounds") <=> ~InLog(i)
      /\ InLog(i) => mmPosition(World, i).err = Null
      /\ InLog(i) => Outcome(getEntry(World, i)).kind = "entry"

\* ------------------------------------------------------------ buffered writer
\* the inputs of the first n BufferedWriter.write calls, concatenated
RECURSIVE InputsUpTo(_)
InputsUpTo(n) == IF n = 0 THEN << >> ELSE InputsUpTo(n - 1) \o calls[n].content
\* the bytes handed to the file followed by the bytes left in the buffer
WriterBytes == segs[wal.currSegmentWriter.fh.seg] \o wal.currSegmentWriter.buf

\* C26: BufferedWriter.write returns for every data length and every fill
\* level of the buffer, and then the bytes handed to the file followed by the
\* bytes left in the buffer are the concatenation of all inputs in order.
C26_BufferedWriteExact ==
  wal.currSegmentWriter.exists =>
    /\ \A c \in DOMAIN calls : calls[c].pc = "returned"
    /\ WriterBytes = InputsUpTo(Len(calls))

\* ------------------------------------------------------------ write after recover
\* the write call made right after a recover that truncated the log
WriteAfterRecover == last.op = "recover+write"
WriteAfter == calls[Len(calls)]

\* C27: after recover has truncated the log, the next write succeeds and
\* getEntry of the index it returns yields the entry just written, whether
\* the cut lay in the current segment or in an earlier one.
C27_WritableAfterRecover ==
  (WriteAfterRecover /\ Quiescent) =>
    /\ WriteAfter.pc = "returned"
    /\ Returns(World, WriteAfter.index, WriteAfter.content)

\* ------------------------------------------------------------ fsync
\* the step flushed the buffered bytes of the current writer to its file
Flushes ==
  /\ wal.currSegmentWriter.exists /\ wal'.currSegmentWriter.exists
  /\ wal'.currSegmentWriter.fh.seg = wal.currSegmentWriter.fh.seg
  /\ wal.currSegmentWriter.buf # << >>
  /\ wal'.currSegmentWriter.buf = << >>
  /\ segs'[wal.currSegmentWriter.fh.seg] # segs[wal.currSegmentWriter.fh.seg]

\* C28: a flush that finds buffered bytes writes them to the file and then
\* issues an fsync on the file before it completes: after SegmentWriter.sync
\* no written byte of the file is left without an fsync.
C28_FlushEndsWithFsync ==
  [][ Flushes => ~wal'.currSegmentWriter.fh.dirty ]_vars

\* ------------------------------------------------------------ liveness of write
\* call c was made
Called(c) == c \in DOMAIN calls
\* the waiter of a call whose frame was appended is still pending
WaiterPending(c) == calls[c].pc = "awaitp" /\ ~calls[c].resolved
\* a sync is queued for the lock or running
SyncComing == Queued("sync") \/ crit.pc = "syncing"

\* C29: every write call on an initialized, open coordinator eventually
\* returns, and a waiter is never pending while no sync is queued or running.
C29_WriteEventuallyReturns ==
  /\ [](\A c \in DOMAIN calls : WaiterPending(c) => SyncComing)
  /\ \A c \in 1..MaxWrites : Called(c) ~> (Called(c) /\ calls[c].pc = "returned")

\* ------------------------------------------------------------ the files at a crash
\* the slot index.META holds for the i-th index of the persisted range
PersistedSlot(i) == MetaReadSlot(meta, HEADER_SIZE + i * INDEX_SIZE)
\* the i-th slot of index.META has been written
SlotWritten(i) == i + 1 <= Len(meta.slots)
\* what a reader finds in the segment files where the i-th slot points
PersistedFrame(i) ==
  IF PersistedSlot(i)[1] \in DOMAIN segs
  THEN readOffset(segs[PersistedSlot(i)[1]], PersistedSlot(i)[2])
  ELSE ReadUndefined

\* C30: at every point at which the process can die, every index entry of
\* index.META within [Base, persisted Head) has been written and points to a
\* complete frame of its segment file whose Index is Base + i: the index on
\* disk is never ahead of the segment data on disk.
C30_DiskStateConsistent ==
  meta.exists =>
    \A i \in 0 .. (meta.head - meta.base - 1) :
      /\ SlotWritten(i)
      /\ PersistedFrame(i).kind = "entry"
      /\ PersistedFrame(i).index = meta.base + i

\* ------------------------------------------------------------ direct meta mode
\* the header fields of index.META equal the fields in memory
HeaderPersisted ==
  /\ meta.exists
  /\ meta.base = Hdr.base
  /\ meta.head = Hdr.head
  /\ meta.commit = Hdr.commit
  /\ meta.segment = Hdr.segment
\* every index slot of [Base, Head) is in index.META, none is waiting in memory
SlotsPersisted ==
  /\ mm.updatesQueue = << >>
  /\ \A i \in 0 .. (Hdr.head - Hdr.base - 1) : SlotWritten(i)

\* C31: a coordinator constructed with meta.bufferingEnabled = false runs its
\* meta index in direct mode, whether init created index.META or loaded it:
\* after each write's meta append and after each commit, the index slots and
\* Head, Commit and CurrentSegment on disk equal the values in memory.
C31_DirectModePersists ==
  (wal.isInitialized /\ Hdr.open /\ ~wal.metaManagerOpts.bufferingEnabled) =>
    /\ ~mm.isBufferingEnabled
    /\ HeaderPersisted
    /\ SlotsPersisted

\* ------------------------------------------------------------ I/O errors in a write
\* the file operations of a rollover that can reject
RollFaults == { "close", "open" }

\* WAL.rollSegmentIfNeeded after `this.currSegmentID += 1`, when a file
\* operation rejects: close() of the old writer, or fs.open of the new file
\* after the old writer was closed
rollSegmentRejected(w1, fault) ==
  IF fault = "close" THEN Throw(w1, "EIO")
  ELSE IF ~w1.wal.currSegmentWriter.exists THEN Throw(w1, "EIO")
  ELSE Throw(bwClose(w1).w, "EIO")

rollDue(w) ==
  ~(w.wal.currSegmentWriter.exists /\ w.wal.currSegmentWriter.size < w.wal.maxSegmentSize)

rollSegmentIfNeededRejected(w, fault) ==
  IF ~rollDue(w) THEN Ok(w, Null)
  ELSE rollSegmentRejected([w EXCEPT !.wal.currSegmentID = @ + 1], fault)

\* WAL.doWrite when a file operation of its rollover rejects
doWriteRejected(w, content, fault) ==
  IF w.wal.isClosed THEN Throw(w, "Closed")
  ELSE doWriteRolled(rollSegmentIfNeededRejected(w, fault), TextEncode(content))

\* the lock is granted to a write call whose rollover meets an I/O error
DoWriteFault(fault) ==
  /\ HeadIs("write")
  /\ crit.pc = "none"
  /\ ~wal.isClosed
  /\ rollDue(World)
  /\ fault = "close" => wal.currSegmentWriter.exists
  /\ DoWriteDone(Head(wal.lockQ).id,
                 doWriteRejected(World, calls[Head(wal.lockQ).id].content, fault))
  /\ last' = Finished(LastOf("fault", Head(wal.lockQ).id, World), "EIO", FALSE)
  /\ UNCHANGED << opts, tsync, restarts, budget >>

\* the task of scheduleSync is granted the lock and the write of its flush
\* rejects: BufferedWriter.flush throws before it resets its size
SyncFault ==
  /\ HeadIs("sync")
  /\ crit.pc = "none"
  /\ wal.currSegmentWriter.exists
  /\ wal.currSegmentWriter.buf # << >>
  /\ SyncFlushed(Throw(World, "EIO"))
  /\ UNCHANGED << opts, calls, tsync, restarts, budget, last >>

\* concurrent write and close calls, the rollover of a write and the flush of
\* a background sync failing or not
NextFault ==
  \/ InitWAL
  \/ \E content \in Contents : WriteCall(content)
  \/ \E content \in Contents : Len(content) = 1 /\ WriteClosed(content)
  \/ DoWrite
  \/ \E fault \in RollFaults : DoWriteFault(fault)
  \/ SyncBegin
  \/ SyncFault
  \/ SyncEnd
  \/ WriteReturn
  \/ CloseCall
  \/ CloseBegin
  \/ CloseEnd

SpecFault == Init /\ [][NextFault]_vars

\* the write call at the head of the lock queue
Granted == Head(wal.lockQ).id
\* a step in which the write call that holds the lock fails before
\* SegmentWriter.write: the coordinator is closed, or its rollover fails
FailsBeforeAppend ==
  /\ HeadIs("write")
  /\ calls[Granted].pc = "queued"
  /\ calls'[Granted].pc = "failed"
  /\ \/ wal.isClosed
     \/ last'.op = "fault" /\ last'.k = Granted
\* a step in which a write call appends right after a failed one
AppendsAfterFault ==
  /\ HeadIs("write")
  /\ last.op = "fault"
  /\ calls[Granted].pc = "queued"
  /\ calls'[Granted].pc = "awaitp"

\* C32: a write that fails before SegmentWriter.write ran (closed coordinator,
\* or a failed close or open in the rollover) leaves Head, Commit,
\* currSegmentID, the current segment writer and the set of segment files as
\* they were, and the next write is appended where it would have been
\* without the failed one.
C32_EarlyFailureChangesNothing ==
  /\ [][ FailsBeforeAppend =>
          /\ mm'.header = mm.header
          /\ wal'.currSegmentID = wal.currSegmentID
          /\ wal'.currSegmentWriter = wal.currSegmentWriter
          /\ DOMAIN segs' = DOMAIN segs ]_vars
  /\ [][ AppendsAfterFault =>
          /\ calls'[Granted].index = last.pre.header.head
          /\ calls'[Granted].seg = last.pre.currSegmentID + 1 ]_vars

\* ------------------------------------------------------------ a damaged frame
\* every entry of [Base, Head) can be read
AllReadable ==
  \A i \in Hdr.base .. (Hdr.head - 1) : Outcome(getEntry(World, i)).kind = "entry"
\* where position(i) says the frame of index i is
FramePosition(i) == mmPosition(World, i).val
\* the 1-based place in its segment file of the first content byte of the
\* frame of index i
ContentByte(i) == FramePosition(i).offset + FRAME_HEADER_SIZE + INT_SIZE + 1

\* the medium damages the first content byte of the frame of an uncommitted
\* index whose frame is in its segment file
Corrupt(i) ==
  /\ wal.isInitialized /\ Hdr.open
  /\ Quiescent
  /\ AllReadable
  /\ i > Hdr.commit /\ i < Hdr.head
  /\ ContentByte(i) <= Len(segs[FramePosition(i).segmentID])
  /\ segs' = [segs EXCEPT ![FramePosition(i).segmentID][ContentByte(i)] = (@ + 1) % 256]
  /\ last' = LastNone
  /\ UNCHANGED << meta, tmp, asegs, ameta, mm, wal, opts, calls, crit, tsync, restarts, budget >>

\* one client that writes, commits and recovers a log in which a frame gets
\* damaged
NextCorrupt ==
  \/ InitWAL
  \/ \E content \in Contents : Quiescent /\ WriteCall(content)
  \/ DoWrite
  \/ SyncBegin
  \/ SyncEnd
  \/ WriteReturn
  \/ \E index \in 0..(MaxWrites - 1) : Quiescent /\ Commit(index)
  \/ \E i \in 0..(MaxWrites - 1) : Corrupt(i)
  \/ \E k \in 0..MaxWrites : Quiescent /\ Recover(k)

SpecCorrupt == Init /\ [][NextCorrupt]_vars

\* recover ran its loop: the log had committed and uncommitted entries
RecoverLooped ==
  /\ last.op = "recover" /\ last.done
  /\ PreHdr.commit # -1
  /\ PreHdr.commit # PreHdr.head - 1
\* the uncommitted indices that getEntry could not read before recover, and
\* the first of them
Unreadable ==
  { i \in (PreHdr.commit + 1) .. (PreHdr.head - 1) : last.pre.got[i].kind = "error" }
FirstUnreadable == SetMin(Unreadable)
\* recover met a frame with a bad checksum before its handler rejected an index
MetCorruptEntry ==
  /\ RecoverLooped
  /\ Unreadable # {}
  /\ last.pre.got[FirstUnreadable].err = "CorruptEntry"
  /\ last.k >= FirstUnreadable

\* C33: when getEntry fails with CorruptEntry at index c during recover,
\* recover stops with that error: the indices of (Commit_pre, c) accepted by
\* the handler are committed and nothing from c on is (Commit == c - 1), Head
\* is unchanged and no segment file is truncated or deleted.
C33_RecoverStopsAtCorruptEntry ==
  MetCorruptEntry =>
    /\ last.err = "CorruptEntry"
    /\ Hdr.commit = FirstUnreadable - 1
    /\ Hdr.head = PreHdr.head
    /\ segs = last.pre.segs

C33_Witness ==
  /\ MetCorruptEntry
  /\ last.err = "CorruptEntry"
  /\ Hdr.commit > PreHdr.commit
  /\ last.k > FirstUnreadable

\* ------------------------------------------------------------ recover after a restart
\* a step in which recover() runs its loop and its handler is asked about
\* the entries up to k and rejects k
RecoverRejects ==
  /\ last'.op = "recover" /\ last'.done
  /\ Hdr.open
  /\ Hdr.commit # -1
  /\ Hdr.commit < Hdr.head - 1
  /\ last'.k < Hdr.head
  /\ \A i \in (Hdr.commit + 1) .. last'.k : Outcome(getEntry(World, i)).kind = "entry"
\* the step was taken by a coordinator right after it loaded the log in init
AfterLoad == last.op = "reopen"
\* recover returned, Head is k and the segment file of k ends where the
\* frame of k began
CutAtRejected ==
  /\ last'.err = Null
  /\ mm'.header.head = last'.k
  /\ FramePosition(last'.k).segmentID \in DOMAIN segs'
  /\ Len(segs'[FramePosition(last'.k).segmentID]) = FramePosition(last'.k).offset

\* C34: recover() on a coordinator that loaded its segments through init does
\* what it does on the coordinator that wrote them: when the handler rejects
\* index k it returns without error, Head is k and the segment file that
\* holds k is cut at the byte offset of k, also when k is in the current
\* segment.
C34_RecoverAfterRestart ==
  [][ (RecoverRejects /\ AfterLoad) => CutAtRejected ]_vars

\* ------------------------------------------------------------ the queue of batched mode
\* the manager batches, its queue is empty and no sync() of it is under way
QueueDrained ==
  /\ Hdr.open
  /\ mm.isBufferingEnabled
  /\ mm.updatesQueue = << >>
  /\ tsync = IdleTimer
\* the location doWrite handed to MetaFileManager.write for the record of call c
Handed(c) == << calls[c].seg, calls[c].off >>

\* C35: in batched mode a flush neither drops nor misplaces a queued index
\* entry, however the appends interleave with the flushes of the timer, of
\* position() and of the maxBufferSize threshold: once the queue is empty and
\* no flush is under way, slot i of index.META holds the location passed to
\* the append that returned i, for every i in [Base, Head).
C35_FlushKeepsQueuedEntries ==
  QueueDrained =>
    \A c \in Appended :
      (Hdr.base <= calls[c].index /\ calls[c].index < Hdr.head /\ c = LatestCall(calls[c].index)) =>
        /\ SlotWritten(calls[c].index - Hdr.base)
        /\ PersistedSlot(calls[c].index - Hdr.base) = Handed(c)

\* ------------------------------------------------------------ the meta manager alone
\* the outcome of a MetaFileManager.write as the state of the call
MmCallOf(sg, off, r) ==
  [pc |-> IF r.err = Null THEN "returned" ELSE "failed",
   content |-> << >>, index |-> IF r.err = Null THEN r.val ELSE -1,
   seg |-> sg, off |-> off, resolved |-> FALSE, covered |-> FALSE, turn |-> 0, behind |-> 0]

MmAppended(sg, off, r) ==
  /\ Becomes(r.w)
  /\ calls' = Append(calls, MmCallOf(sg, off, r))

\* await meta.write(sg, off)
MmAppend(sg, off) ==
  /\ Hdr.open
  /\ Len(calls) < budget.writes
  /\ MmAppended(sg, off, mmWrite(World, sg, off))
  /\ UNCHANGED << opts, crit, tsync, restarts, budget, last >>

\* await meta.truncate(k)
MmTruncate(k) ==
  /\ Hdr.open
  /\ Becomes(mmTruncate(World, k).w)
  /\ UNCHANGED << opts, calls, crit, tsync, restarts, budget, last >>

\* await meta.sync()
MmSync ==
  /\ Hdr.open
  /\ Becomes(mmSync(World))
  /\ UNCHANGED << opts, calls, crit, tsync, restarts, budget, last >>

\* one client of a MetaFileManager that awaits each call
NextMeta ==
  \/ InitWAL
  \/ \E sg \in 0..1 : \E off \in ProbeOffsets : MmAppend(sg, off)
  \/ \E index \in 0..(MaxWrites - 1) : Commit(index)
  \/ \E k \in 0..MaxWrites : MmTruncate(k)
  \/ MmSync

SpecMeta == Init /\ [][NextMeta]_vars

\* the index the j-th element of the queue is written for by the next flush
QueuedIndex(j) == Hdr.base + SlotOfOffset(mm.updatesQueueFileOffset) + j - 1

\* C36: in batched mode the queue stays aligned with the index array for any
\* sequence of write, commit, truncate and sync: the j-th queued element is
\* the entry of the slot at updatesQueueFileOffset + 8 * j, so that position
\* returns for every index of [Base, Head) the location passed to the latest
\* append that returned it, a write after truncate(k) included.
C36_QueueAligned ==
  (Hdr.open /\ mm.isBufferingEnabled) =>
    /\ \A j \in 1..Len(mm.updatesQueue) :
         QueuedIndex(j) < Hdr.head => mm.updatesQueue[j] = Handed(LatestCall(QueuedIndex(j)))
    /\ \A i \in Hdr.base .. (Hdr.head - 1) :
         /\ mmPosition(World, i).val.segmentID = Handed(LatestCall(i))[1]
         /\ mmPosition(World, i).val.offset = Handed(LatestCall(i))[2]

\* ------------------------------------------------------------ commit during compaction
\* one client that writes, compacts and archives, the meta manager's file
\* operations taken one at a time, and commit calls, which take no lock, made
\* at any point
NextCommit ==
  \/ InitWAL
  \/ \E content \in Contents : Quiescent /\ WriteCall(content)
  \/ DoWrite
  \/ SyncBegin
  \/ SyncEnd
  \/ WriteReturn
  \/ \E index \in 0..(MaxWrites - 1) : Commit(index)
  \/ Quiescent /\ CompactCall
  \/ Quiescent /\ ArchiveCall
  \/ CompactBegin
  \/ ArchiveBegin
  \/ MetaSwapNotNeeded
  \/ MetaSwapBegin
  \/ MetaSwapCopy
  \/ CompactUnlinkOld
  \/ CompactFinish
  \/ ArchiveTruncateOld
  \/ ArchiveMoveOld
  \/ ArchiveFinish

SpecCommit == Init /\ [][NextCommit]_vars

\* C37: the commit index never decreases, so no successful commit is lost:
\* once commit(i) has returned, Commit >= i in every later state, also when
\* the commit was made while compact or archive was swapping the meta file
\* and the header has been re-read from the new file.
C37_CommitNeverDecreases ==
  [][ (mm.header.open /\ mm'.header.open) => mm'.header.commit >= mm.header.commit ]_vars

\* ------------------------------------------------------------ background sync and close
\* the task of scheduleSync has the lock and is about to run WAL.sync
SyncGranted == HeadIs("sync") /\ crit.pc = "none"

\* C38: the background sync scheduled by a write never runs against a closed
\* coordinator: for every interleaving of write and close, the scheduled sync
\* never obtains the lock while currSegmentWriter is null, and isSyncOngoing
\* is false whenever no background sync is queued or running.
C38_NoSyncAfterClose ==
  /\ SyncGranted => wal.currSegmentWriter.exists
  /\ wal.isSyncOngoing => Queued("sync")

\* ------------------------------------------------------------ a failed background sync
\* a step in which doWrite appends the record of the call that holds the lock
Appends ==
  /\ HeadIs("write")
  /\ calls[Granted].pc = "queued"
  /\ calls'[Granted].pc = "awaitp"

\* C39: a failed background sync does not wedge the log: isSyncOngoing is
\* reset when the flush of a scheduled sync fails, so that it is set only
\* while a sync is queued or running, and every write that appends afterwards
\* has a sync queued behind it that will resolve its waiter.
C39_FailedSyncDoesNotWedge ==
  /\ [](wal.isSyncOngoing => SyncComing)
  /\ [][ Appends => \E j \in DOMAIN wal'.lockQ : wal'.lockQ[j].k = "sync" ]_vars

====
